---- MODULE Spec2Model ----
(***************************************************************************)
(* Model of the coercion and execution engine of tartiflette.              *)
(*                                                                         *)
(* Spec        : execution of one operation (field resolution, output      *)
(*               coercion, the field error boundary, null propagation).    *)
(* SpecRequest : one request from its raw variables to its response        *)
(*               (variable coercion, argument coercion of the root field,  *)
(*               input and literal coercion, the field error boundary).    *)
(* SpecCoercion: one input or literal coercer applied twice to the same    *)
(*               input, the sibling coercions it gathers completing in any *)
(*               order.                                                    *)
(***************************************************************************)
EXTENDS Integers, Sequences, FiniteSets, TLC

\* ------------------------------------------------------------------------
\* Bounds
\* ------------------------------------------------------------------------
\* longest list a resolver returns
MaxItems == 2

\* ------------------------------------------------------------------------
\* Schema types: a type is the sequence of its wrappers, outermost first,
\* ending with the name of the wrapped type: [Int!]! is
\* <<"NN", "L", "NN", "Int">>.
\* ------------------------------------------------------------------------
is_non_null_type(T) == Head(T) = "NN"

is_list_type(T) == Head(T) = "L"

is_wrapping_type(T) == Head(T) \in {"NN", "L"}

get_wrapped_type(T) == T[Len(T)]

is_object_type(T) == T = <<"Obj">>

is_leaf_type(T) == T = <<"Int">>

\* ------------------------------------------------------------------------
\* Values.  Every value is a record [t, v, s]: t is its tag, v its content
\* (a string), s its items.
\* ------------------------------------------------------------------------
\* None
Null == [t |-> "null", v |-> "", s |-> <<>>]

\* a value the leaf type serialises, or the source value of an object
Ok == [t |-> "ok", v |-> "", s |-> <<>>]

\* a value for which coerce_output fails
Bad == [t |-> "bad", v |-> "", s |-> <<>>]

\* an Exception instance (what resolve_field_value_or_error hands over when
\* the resolver raised)
Exc == [t |-> "exc", v |-> "", s |-> <<>>]

\* a python list
Lst(items) == [t |-> "list", v |-> "", s |-> items]

\* a python dict: its entries in insertion order
Dict(entries) == [t |-> "obj", v |-> "", s |-> entries]

\* one entry of a dict
Entry(key, value) == [t |-> "entry", v |-> key, s |-> <<value>>]

\* ------------------------------------------------------------------------
\* Paths: sequences of response keys and list indices (indices as strings)
\* ------------------------------------------------------------------------
IdxNames == <<"0", "1", "2", "3">>

\* Path(path, index)
PathIdx(path, i) == Append(path, IdxNames[i + 1])

\* Path(path, entry_key)
PathKey(path, key) == Append(path, key)

\* an error: message, path ( <<>> while it has none ), and the field the
\* message names
Err(msg, on, path) == [msg |-> msg, on |-> on, path |-> path]

\* ------------------------------------------------------------------------
\* State of one operation execution
\* ------------------------------------------------------------------------
VARIABLES
    schema,     \* field name -> declared type of the field
    tasks,      \* path -> the resolve_field coroutine scheduled for it
    errors,     \* execution_context.errors
    response,   \* the response, once assembled
    request,    \* the request: its variable definitions, raw variable
                \* values and argument nodes, and the schema it runs against
    pc,         \* how far the request has got
    variable_results,   \* coerce_variables: the results gathered so far
    variable_values,    \* what coerce_variables returned
    argument_results,   \* coerce_arguments: the results gathered so far
    coerced_arguments,  \* what coerce_arguments returned or raised
    coercion,   \* the coercer under way: its type and what it is given
    gathered,   \* the results of the sibling coercions it gathers
    completed,  \* the indices of those that are over, in completion order
    runs,       \* what the coercer returned or raised, once per run
    resolution, \* the field under resolution: its directives, its resolver
    cursor,     \* how far resolve_field_value_or_error has got
    invoked,    \* the callables it has invoked so far, in order
    outcome,    \* what it returned or raised
    completion, \* the abstract_coercer call: the abstract type, the result
                \* and what the type resolver and the sub-selection answer
    step,       \* how far abstract_coercer has got
    trace,      \* the callables it has invoked so far, in order
    completion_outcome  \* what it returned or raised

execution_vars == <<schema, tasks, errors, response>>

request_vars ==
    <<request, pc, variable_results, variable_values, argument_results,
      coerced_arguments>>

coercion_vars == <<coercion, gathered, completed, runs>>

resolution_vars == <<resolution, cursor, invoked, outcome>>

abstract_vars == <<completion, step, trace, completion_outcome>>

vars ==
    <<execution_vars, request_vars, coercion_vars, resolution_vars,
      abstract_vars>>

\* the selection set executed on each object type, in selection order
Selection(parent) == IF parent = "Query" THEN <<"a", "b">> ELSE <<"x">>

\* the object type that declares a field
ParentType(field) == IF field \in {"a", "b", "f"} THEN "Query" ELSE "Obj"

IsIndex(seg) == \E i \in 1..Len(IdxNames) : IdxNames[i] = seg

\* info.field_name of the field a path belongs to: its last response key
RECURSIVE FieldOf(_)
FieldOf(path) ==
    IF IsIndex(path[Len(path)]) THEN FieldOf(SubSeq(path, 1, Len(path) - 1))
    ELSE path[Len(path)]

\* info.parent_type.name, info.field_name
InfoOf(path) == <<ParentType(FieldOf(path)), FieldOf(path)>>

\* ------------------------------------------------------------------------
\* What a coroutine has done when it next suspends or returns.
\*   st    "val": returned val; "raise": raised the errors errs;
\*         "wait": suspended until the coroutines of spawn are done
\*   log   the errors it has passed to execution_context.add_error, in order
\* ------------------------------------------------------------------------
WVal(v, log) == [st |-> "val", val |-> v, errs |-> <<>>, log |-> log, spawn |-> {}]

WRaise(errs, log) == [st |-> "raise", val |-> Null, errs |-> errs, log |-> log, spawn |-> {}]

WWait(spawn, log) == [st |-> "wait", val |-> Null, errs |-> <<>>, log |-> log, spawn |-> spawn]

\* located_error overwriting the path an exception already has
located_error_overwrite(errs, path) ==
    [i \in 1..Len(errs) |-> [errs[i] EXCEPT !.path = path]]

\* located_error: every exception of the error gets the path, unless it has one
located_error(errs, path) ==
    [i \in 1..Len(errs) |->
        IF path # <<>> /\ errs[i].path = <<>>
        THEN [errs[i] EXCEPT !.path = path]
        ELSE errs[i]]

\* handle_field_error that always records the error, whatever the type
handle_field_error_absorb(raw_errs, path, return_type, log) ==
    WVal(Null, log \o located_error(raw_errs, path))

\* handle_field_error: re-raise for a non-null return type, else record the
\* error and resolve to None
handle_field_error(raw_errs, path, return_type, log) ==
    LET error == located_error(raw_errs, path)
    IN  IF is_non_null_type(return_type)
        THEN WRaise(error, log)
        ELSE WVal(Null, log \o error)

\* leaf_coercer (under null_coercer_wrapper)
leaf_coercer(result, path) ==
    IF result = Null THEN WVal(Null, <<>>)
    ELSE IF result = Ok THEN WVal(Ok, <<>>)
    ELSE WRaise(<<Err("Expected value of type", InfoOf(path), <<>>)>>, <<>>)

\* the exceptions of the results of a gather, in argument order
RECURSIVE ExceptionsOf(_, _)
ExceptionsOf(children, i) ==
    IF i > Len(children) THEN <<>>
    ELSE (IF tasks[children[i]].res.st = "raise"
          THEN tasks[children[i]].res.errs ELSE <<>>)
         \o ExceptionsOf(children, i + 1)

\* execute_fields: one resolve_field coroutine per entry of the selection,
\* gathered; the exceptions they raised are raised together, else the map
\* of their values in selection order
execute_fields(parent_type, path) ==
    LET sel == Selection(parent_type)
        children == [i \in 1..Len(sel) |-> PathKey(path, sel[i])]
        kids == {children[i] : i \in 1..Len(sel)}
        exceptions == ExceptionsOf(children, 1)
    IN  IF \E c \in kids : c \notin DOMAIN tasks \/ tasks[c].st # "done"
        THEN WWait(kids, <<>>)
        ELSE IF exceptions # <<>> THEN WRaise(exceptions, <<>>)
        ELSE WVal(Dict([i \in 1..Len(sel) |->
                            Entry(sel[i], tasks[children[i]].res.val)]), <<>>)

\* object_coercer (under null_coercer_wrapper) and complete_object_value
object_coercer(result, path) ==
    IF result = Null THEN WVal(Null, <<>>)
    ELSE execute_fields("Obj", path)

RECURSIVE output_coercer(_, _, _)
RECURSIVE list_items(_, _, _, _, _, _)
RECURSIVE complete_value_catching_error(_, _, _)

\* non_null_coercer that lets a null through
non_null_coercer_skip(T, result, path) == output_coercer(Tail(T), result, path)

\* non_null_coercer
non_null_coercer(T, result, path) ==
    LET coerced_output == output_coercer(Tail(T), result, path)
    IN  IF coerced_output.st = "val" /\ coerced_output.val = Null
        THEN WRaise(<<Err("Cannot return null for non-nullable field",
                          InfoOf(path), <<>>)>>, coerced_output.log)
        ELSE coerced_output

\* list_coercer whose items are all completed, as a gather would: the items
\* after a failing or suspended one are completed too
RECURSIVE list_items_gathered(_, _, _, _, _, _)
list_items_gathered(item_type, items, path, i, vals, log) ==
    IF i > Len(items) THEN WVal(Lst(vals), log)
    ELSE LET r == complete_value_catching_error(item_type, items[i],
                                                PathIdx(path, i - 1))
             rest == list_items_gathered(item_type, items, path, i + 1,
                                         Append(vals, r.val), log \o r.log)
         IN  IF r.st = "val" THEN rest
             ELSE IF r.st = "raise"
             THEN [r EXCEPT !.log = rest.log,
                            !.errs = r.errs \o (IF rest.st = "raise"
                                                THEN rest.errs ELSE <<>>)]
             ELSE IF rest.st = "wait"
             THEN [rest EXCEPT !.spawn = r.spawn \cup rest.spawn]
             ELSE [r EXCEPT !.log = log \o r.log]

\* list_coercer (under null_coercer_wrapper): the items one after the other
list_coercer(T, result, path) ==
    IF result = Null THEN WVal(Null, <<>>)
    ELSE IF result.t # "list"
    THEN WRaise(<<Err("Expected Iterable, but did not find one for field",
                      InfoOf(path), <<>>)>>, <<>>)
    ELSE list_items(Tail(T), result.s, path, 1, <<>>, <<>>)

list_items(item_type, items, path, i, vals, log) ==
    IF i > Len(items) THEN WVal(Lst(vals), log)
    ELSE LET r == complete_value_catching_error(item_type, items[i],
                                                PathIdx(path, i - 1))
         IN  IF r.st = "val"
             THEN list_items(item_type, items, path, i + 1,
                             Append(vals, r.val), log \o r.log)
             ELSE [r EXCEPT !.log = log \o r.log]

\* get_output_coercer: the coercer of the wrapped type under its wrappers
output_coercer(T, result, path) ==
    IF is_non_null_type(T) THEN non_null_coercer(T, result, path)
    ELSE IF is_list_type(T) THEN list_coercer(T, result, path)
    ELSE IF is_leaf_type(T) THEN leaf_coercer(result, path)
    ELSE object_coercer(result, path)

\* complete_value_catching_error without the except clause
complete_value_catching_error_nocatch(return_type, result, path) ==
    IF result.t = "exc"
    THEN WRaise(<<Err("resolver error", InfoOf(path), <<>>)>>, <<>>)
    ELSE output_coercer(return_type, result, path)

\* complete_value_catching_error
complete_value_catching_error(return_type, result, path) ==
    LET r == IF result.t = "exc"
             THEN WRaise(<<Err("resolver error", InfoOf(path), <<>>)>>, <<>>)
             ELSE output_coercer(return_type, result, path)
    IN  IF r.st = "raise"
        THEN handle_field_error(r.errs, path, return_type, r.log)
        ELSE r

\* ------------------------------------------------------------------------
\* The declared types the fields are drawn from
\* ------------------------------------------------------------------------
ObjectTypes ==
    { <<"Obj">>, <<"NN", "Obj">>, <<"L", "Obj">>, <<"L", "NN", "Obj">>,
      <<"NN", "L", "Obj">>, <<"NN", "L", "NN", "Obj">> }

LeafTypes ==
    { <<"Int">>, <<"NN", "Int">>, <<"L", "Int">>, <<"L", "NN", "Int">>,
      <<"NN", "L", "Int">>, <<"NN", "L", "NN", "Int">> }

Range(q) == { q[i] : i \in 1..Len(q) }

\* all sequences over S of length at most n
RECURSIVE SeqsUpTo(_, _)
SeqsUpTo(S, n) ==
    IF n = 0 THEN { <<>> }
    ELSE SeqsUpTo(S, n - 1)
         \cup { Append(q, e) : q \in { r \in SeqsUpTo(S, n - 1) : Len(r) = n - 1 },
                               e \in S }

\* what a resolver of a field of type T may return
RECURSIVE RawFor(_)
RawFor(T) ==
    IF is_non_null_type(T) THEN RawFor(Tail(T))
    ELSE IF is_list_type(T)
    THEN {Null, Ok} \cup { Lst(q) : q \in SeqsUpTo(RawFor(Tail(T)), MaxItems) }
    ELSE IF is_leaf_type(T) THEN {Null, Ok, Bad}
    ELSE {Null, Ok}

\* ... or hand over as the exception it raised
ResolverResults(T) == RawFor(T) \cup {Exc}

\* the schemas executed: a list occurs at one level of the selection
Schemas ==
    { sc \in [a : ObjectTypes, b : {<<"Int">>, <<"NN", "Int">>}, x : LeafTypes] :
        "L" \in Range(sc.a) => "L" \notin Range(sc.x) }

NewTask == [st |-> "scheduled", raw |-> Null, res |-> WWait({}, <<>>)]

NoResponse == [done |-> FALSE, data |-> Null, errors |-> <<>>]

\* a result slot of a gather whose coroutine has not returned yet
Pending == [k |-> "pending", value |-> Null, errors |-> <<>>, calls |-> <<>>]

\* coerce_variables / coerce_arguments has not returned yet
NotReturned == [k |-> "pending", values |-> Dict(<<>>), errors |-> <<>>]

\* no field is resolved on its own
NoResolution ==
    [node_directives |-> <<>>, definition_directives |-> <<>>,
     computed |-> "ok", arguments |-> "ok", resolver |-> "value",
     output_directives |-> "ok"]

NoCursor == [at |-> "idle", chain |-> <<>>, index |-> 0]

NoOutcome == [k |-> "pending", value |-> Null]

\* no abstract type is completed on its own
NoCompletion ==
    [abstract_type |-> <<"Pet">>, type_resolver |-> "none", result |-> Null,
     runtime_type_or_name |-> Null, fields |-> "value"]

\* no coercer is applied on its own
NoCoercion ==
    [way |-> "none", T |-> <<"Int">>, value |-> Null, variables |-> Null,
     directives |-> {}]

\* the operation declares no variable and its fields take no argument
NoRequest ==
    [variable_definitions |-> <<>>, raw_variable_values |-> Dict(<<>>),
     argument_definitions |-> <<>>, argument_nodes |-> <<>>,
     directives |-> {}, return_type |-> <<"Int">>]

Init ==
    /\ schema \in Schemas
    /\ tasks = [p \in { <<"a">>, <<"b">> } |-> NewTask]
    /\ errors = <<>>
    /\ response = NoResponse
    /\ request = NoRequest
    /\ pc = "execute_fields"
    /\ variable_results = <<>>
    /\ variable_values = [NotReturned EXCEPT !.k = "result"]
    /\ argument_results = <<>>
    /\ coerced_arguments = NotReturned
    /\ coercion = NoCoercion
    /\ gathered = <<>>
    /\ completed = <<>>
    /\ runs = <<>>
    /\ resolution = NoResolution
    /\ cursor = NoCursor
    /\ invoked = <<>>
    /\ outcome = NoOutcome
    /\ completion = NoCompletion
    /\ step = [at |-> "idle", runtime_type |-> Null]
    /\ trace = <<>>
    /\ completion_outcome = NoOutcome

\* a resolve_field coroutine runs until it next suspends or returns
Step(p, raw) ==
    LET w == complete_value_catching_error(schema[FieldOf(p)], raw, p)
        emitted == Len(tasks[p].res.log)
        started == w.spawn \ DOMAIN tasks
    IN  /\ errors' = errors \o SubSeq(w.log, emitted + 1, Len(w.log))
        /\ tasks' = [q \in DOMAIN tasks \cup started |->
                        IF q = p
                        THEN [st |-> IF w.st = "wait" THEN "waiting" ELSE "done",
                              raw |-> raw, res |-> w]
                        ELSE IF q \in started THEN NewTask
                        ELSE tasks[q]]
        /\ UNCHANGED <<schema, response, request_vars, coercion_vars,
                   resolution_vars, abstract_vars>>

\* resolve_field: the resolver is invoked and its result output-coerced
ResolveField(p) ==
    /\ tasks[p].st = "scheduled"
    /\ \E raw \in ResolverResults(schema[FieldOf(p)]) : Step(p, raw)

\* the gather a coroutine awaits is complete: it goes on
Resume(p) ==
    /\ tasks[p].st = "waiting"
    /\ \A c \in tasks[p].res.spawn : c \in DOMAIN tasks /\ tasks[c].st = "done"
    /\ Step(p, tasks[p].raw)

\* the operation's root fields are done: the response is assembled
Respond ==
    /\ ~response.done
    /\ \A p \in { <<"a">>, <<"b">> } : tasks[p].st = "done"
    /\ LET w == execute_fields("Query", <<>>)
       IN  response' = [done |-> TRUE,
                        data |-> IF w.st = "raise" THEN Null ELSE w.val,
                        errors |-> errors \o w.errs]
    /\ UNCHANGED <<schema, tasks, errors, request_vars, coercion_vars,
                   resolution_vars, abstract_vars>>

Next ==
    \/ \E p \in DOMAIN tasks : ResolveField(p)
    \/ \E p \in DOMAIN tasks : Resume(p)
    \/ Respond

Spec == Init /\ [][Next]_vars

\* ------------------------------------------------------------------------
\* Properties of the execution
\* ------------------------------------------------------------------------
\* the item type of a list type, whether or not the list is non-null
ItemType(T) == IF is_non_null_type(T) THEN Tail(Tail(T)) ELSE Tail(T)

\* the declared type of the position (field or list item) a path names
RECURSIVE TypeAt(_)
TypeAt(path) ==
    IF IsIndex(path[Len(path)])
    THEN ItemType(TypeAt(SubSeq(path, 1, Len(path) - 1)))
    ELSE schema[path[Len(path)]]

IdxNum(seg) == CHOOSE i \in 0..(Len(IdxNames) - 1) : IdxNames[i + 1] = seg

\* the value the response holds at a path; null below a null
RECURSIVE Nav(_, _, _)
Nav(val, path, i) ==
    IF i > Len(path) \/ val.t = "null" THEN val
    ELSE IF val.t = "list" THEN Nav(val.s[IdxNum(path[i]) + 1], path, i + 1)
    ELSE LET k == CHOOSE j \in 1..Len(val.s) : val.s[j].v = path[i]
         IN  Nav(val.s[k].s[1], path, i + 1)

\* the nearest enclosing position of p whose type is nullable; <<>> if none
AbsorberOf(p) ==
    LET cands == { n \in 1..(Len(p) - 1) : ~is_non_null_type(TypeAt(SubSeq(p, 1, n))) }
    IN  IF cands = {} THEN <<>>
        ELSE SubSeq(p, 1, CHOOSE n \in cands : \A m \in cands : m <= n)

\* the number of errors of a list that carry the path
CountPath(errs, path) == Cardinality({ i \in 1..Len(errs) : errs[i].path = path })

\* the field's own resolution failed: its resolver raised, or its value is
\* null, not serialisable, or not a list where one is declared
OwnFailure(p) ==
    \/ tasks[p].raw.t \in {"exc", "null", "bad"}
    \/ tasks[p].raw.t = "ok" /\ "L" \in Range(schema[FieldOf(p)])

\* C1: a failing field of non-null type records nothing itself and re-raises
\* one error carrying its own path; in the response the nearest enclosing
\* nullable position is null (the data itself if there is none) and exactly
\* one error carries the path of the failing field.
C1_NullPropagation ==
    \A p \in DOMAIN tasks :
        (tasks[p].st = "done" /\ is_non_null_type(schema[FieldOf(p)]) /\ OwnFailure(p))
        => /\ tasks[p].res.st = "raise"
           /\ tasks[p].res.log = <<>>
           /\ Len(tasks[p].res.errs) = 1
           /\ tasks[p].res.errs[1].path = p
           /\ response.done =>
                /\ CountPath(response.errors, p) = 1
                /\ \A q \in DOMAIN tasks :
                      (q # p /\ Len(q) < Len(p) /\ SubSeq(p, 1, Len(q)) = q)
                      => CountPath(tasks[q].res.log \o tasks[q].res.errs, q) = 0
                /\ IF AbsorberOf(p) = <<>> THEN response.data = Null
                   ELSE Nav(response.data, AbsorberOf(p), 1) = Null

\* a nested non-null field failed and a nullable ancestor below the root
\* absorbed it
C1_Witness ==
    /\ response.done
    /\ response.data # Null
    /\ \E p \in DOMAIN tasks :
          /\ Len(p) >= 3
          /\ is_non_null_type(schema[FieldOf(p)])
          /\ tasks[p].st = "done" /\ tasks[p].raw.t = "exc"
          /\ Len(AbsorberOf(p)) = 1
          /\ Nav(response.data, AbsorberOf(p), 1) = Null

CannotReturnNull(path) ==
    Err("Cannot return null for non-nullable field", InfoOf(path), path)

\* C2: a root field of type Int! whose resolver returns null raises "Cannot
\* return null for non-nullable field Query.b." located at ["b"]; nothing
\* absorbs it, so data is null and exactly one error of the response carries
\* that path (the only error at all when the sibling recorded none).
C2_RootNonNullReturnsNull ==
    (response.done /\ schema.b = <<"NN", "Int">> /\ tasks[<<"b">>].raw = Null)
    => /\ tasks[<<"b">>].res.st = "raise"
       /\ tasks[<<"b">>].res.errs = <<CannotReturnNull(<<"b">>)>>
       /\ response.data = Null
       /\ CountPath(response.errors, <<"b">>) = 1
       /\ (errors = <<>> /\ tasks[<<"a">>].res.st = "val")
          => response.errors = <<CannotReturnNull(<<"b">>)>>

C2_Witness ==
    /\ response.done
    /\ schema.b = <<"NN", "Int">>
    /\ tasks[<<"b">>].raw = Null
    /\ tasks[<<"a">>].res.st = "val"
    /\ response = [done |-> TRUE, data |-> Null,
                   errors |-> <<CannotReturnNull(<<"b">>)>>]

\* a done field whose declared type is a list, with the list its resolver
\* returned
IsListTask(p) ==
    /\ ~IsIndex(p[Len(p)])
    /\ tasks[p].st = "done"
    /\ "L" \in Range(schema[FieldOf(p)])
    /\ tasks[p].raw.t = "list"

\* item i (from 0) of the list is null or is not serialisable
ItemFails(p, i) == tasks[p].raw.s[i + 1].t \in {"null", "bad"}

\* the field below item i of a list of objects
ChildOf(p, i) == PathKey(PathIdx(p, i), "x")

\* item i is an object one of whose fields re-raised
ItemChildFails(p, i) ==
    /\ tasks[p].raw.s[i + 1].t = "ok"
    /\ get_wrapped_type(schema[FieldOf(p)]) = "Obj"
    /\ ChildOf(p, i) \in DOMAIN tasks
    /\ tasks[ChildOf(p, i)].st = "done"
    /\ tasks[ChildOf(p, i)].res.st = "raise"

\* the error item i raises
ItemErrors(p, i) ==
    IF ItemChildFails(p, i) THEN tasks[ChildOf(p, i)].res.errs
    ELSE IF tasks[p].raw.s[i + 1].t = "null"
    THEN <<CannotReturnNull(PathIdx(p, i))>>
    ELSE <<Err("Expected value of type", InfoOf(p), PathIdx(p, i))>>

\* C4: in a list whose item type is non-null, the first item that is null or
\* fails produces an error located at list path + index which leaves the
\* list: a nullable list field becomes null and records exactly that error,
\* a non-null list field re-raises it to its parent and records nothing.
C4_NonNullItemFailure ==
    \A p \in DOMAIN tasks :
        (IsListTask(p) /\ is_non_null_type(ItemType(schema[FieldOf(p)])))
        => \A i \in 0..(Len(tasks[p].raw.s) - 1) :
              ( /\ ItemFails(p, i) \/ ItemChildFails(p, i)
                /\ \A j \in 0..(i - 1) : ~ItemFails(p, j) /\ ~ItemChildFails(p, j) )
              => /\ ItemFails(p, i) => ItemErrors(p, i)[1].path = PathIdx(p, i)
                 /\ \A k \in 1..Len(ItemErrors(p, i)) :
                       SubSeq(ItemErrors(p, i)[k].path, 1, Len(p) + 1) = PathIdx(p, i)
                 /\ IF is_non_null_type(schema[FieldOf(p)])
                    THEN tasks[p].res = WRaise(ItemErrors(p, i), <<>>)
                    ELSE tasks[p].res = WVal(Null, ItemErrors(p, i))

\* the second item of a nullable [T!] list was null and the field became null
C4_Witness ==
    \E p \in DOMAIN tasks :
        /\ IsListTask(p)
        /\ schema[FieldOf(p)] = <<"L", "NN", get_wrapped_type(schema[FieldOf(p)])>>
        /\ Len(tasks[p].raw.s) = 2
        /\ ~ItemFails(p, 0) /\ ItemFails(p, 1)
        /\ tasks[p].res.val = Null
        /\ Len(tasks[p].res.log) = 1
        /\ tasks[p].res.log[1].path = PathIdx(p, 1)

\* the value item i of a list has when nothing fails
ItemValue(p, i) ==
    IF tasks[p].raw.s[i + 1].t = "ok" /\ get_wrapped_type(schema[FieldOf(p)]) = "Obj"
    THEN Dict(<<Entry("x", tasks[ChildOf(p, i)].res.val)>>)
    ELSE tasks[p].raw.s[i + 1]

RECURSIVE ConcatItemErrors(_, _)
ConcatItemErrors(p, i) ==
    IF i >= Len(tasks[p].raw.s) THEN <<>>
    ELSE (IF tasks[p].raw.s[i + 1].t = "bad" \/ ItemChildFails(p, i)
          THEN ItemErrors(p, i) ELSE <<>>)
         \o ConcatItemErrors(p, i + 1)

\* C5: in a list whose item type is nullable, the slot of a failing item is
\* null, every other slot holds the value it has without the failure, each
\* failing item adds exactly its own error, located at list path + index,
\* to the recorded errors, and the list field itself never fails.
C5_NullableItemIsolation ==
    \A p \in DOMAIN tasks :
        (IsListTask(p) /\ ~is_non_null_type(ItemType(schema[FieldOf(p)])))
        => /\ tasks[p].res.st = "val"
           /\ tasks[p].res.val.t = "list"
           /\ Len(tasks[p].res.val.s) = Len(tasks[p].raw.s)
           /\ tasks[p].res.log = ConcatItemErrors(p, 0)
           /\ \A i \in 0..(Len(tasks[p].raw.s) - 1) :
                 /\ tasks[p].res.val.s[i + 1] =
                       IF tasks[p].raw.s[i + 1].t = "bad" \/ ItemChildFails(p, i)
                       THEN Null ELSE ItemValue(p, i)
                 /\ tasks[p].raw.s[i + 1].t = "bad"
                    => CountPath(tasks[p].res.log, PathIdx(p, i)) = 1
                 /\ tasks[p].raw.s[i + 1].t \in {"ok", "null"} /\ ~ItemChildFails(p, i)
                    => CountPath(tasks[p].res.log, PathIdx(p, i)) = 0

\* the first of two items failed, the second kept its value
C5_Witness ==
    \E p \in DOMAIN tasks :
        /\ IsListTask(p)
        /\ tasks[p].raw = Lst(<<Bad, Ok>>)
        /\ tasks[p].res.val = Lst(<<Null, Ok>>)
        /\ Len(tasks[p].res.log) = 1
        /\ tasks[p].res.log[1].path = PathIdx(p, 0)
        /\ response.done
        /\ CountPath(response.errors, PathIdx(p, 0)) = 1

\* ========================================================================
\* Request side: variable, argument, input and literal coercion
\* ========================================================================
\* ------------------------------------------------------------------------
\* Values and AST nodes of the request side (same [t, v, s] records)
\* ------------------------------------------------------------------------
\* UNDEFINED_VALUE
Undefined == [t |-> "undef", v |-> "", s |-> <<>>]

\* a python int, written in decimal
IntV(n) == [t |-> "int", v |-> n, s |-> <<>>]

\* a python str
StrV(x) == [t |-> "str", v |-> x, s |-> <<>>]

\* an Exception instance carrying a message
Raised(msg) == [t |-> "exc", v |-> msg, s |-> <<>>]

\* MultipleException(exceptions): the exception that carries several
MultipleException(exceptions) ==
    [t |-> "exc", v |-> "MultipleException", s |-> exceptions]

is_invalid_value(value) == value = Undefined

\* no node: None
NoNode == [t |-> "None", v |-> "", s |-> <<>>]

NullValueNode == [t |-> "NullValueNode", v |-> "", s |-> <<>>]

VariableNode(name) == [t |-> "VariableNode", v |-> name, s |-> <<>>]

IntValueNode(n) == [t |-> "IntValueNode", v |-> n, s |-> <<>>]

StringValueNode(x) == [t |-> "StringValueNode", v |-> x, s |-> <<>>]

EnumValueNode(x) == [t |-> "EnumValueNode", v |-> x, s |-> <<>>]

\* its fields are entries: field name, value node
ObjectValueNode(fields) == [t |-> "ObjectValueNode", v |-> "", s |-> fields]

ListValueNode(values) == [t |-> "ListValueNode", v |-> "", s |-> values]

\* key in d, for a dict or the fields of an object node
HasKey(d, key) == \E i \in 1..Len(d.s) : d.s[i].v = key

\* d.get(key, default)
get(d, key, default) ==
    IF HasKey(d, key)
    THEN d.s[CHOOSE i \in 1..Len(d.s) : d.s[i].v = key].s[1]
    ELSE default

\* d[key] = value on a dict that has no such key yet
Put(d, key, value) == Dict(Append(d.s, Entry(key, value)))

\* the keys of a dict
Keys(d) == { d.s[i].v : i \in 1..Len(d.s) }

\* ------------------------------------------------------------------------
\* The schema of the request side
\*   input In    { a: Int!  b: Int = 7  n: Inner }
\*   input Inner { p: Int!  q: Int }
\*   input Pair  { c: Int = 3  d: Int = 4 }
\*   enum E      { A B }
\*   type Query  { f(x: ..., y: ...): Int or Int! }
\* request.directives names the input fields and types that carry a
\* directive whose on_post_input_coercion hook raises.
\* ------------------------------------------------------------------------
InputField(id, name, gql_type, default_value) ==
    [id |-> id, name |-> name, gql_type |-> gql_type,
     default_value |-> default_value]

\* GraphQLInputObjectType.arguments: the declared fields, in order
input_fields(input_object_type) ==
    IF input_object_type = "In"
    THEN << InputField("In.a", "a", <<"NN", "Int">>, NoNode),
            InputField("In.b", "b", <<"Int">>, IntValueNode("7")),
            InputField("In.n", "n", <<"Inner">>, NoNode) >>
    ELSE IF input_object_type = "Inner"
    THEN << InputField("Inner.p", "p", <<"NN", "Int">>, NoNode),
            InputField("Inner.q", "q", <<"Int">>, NoNode) >>
    ELSE << InputField("Pair.c", "c", <<"Int">>, IntValueNode("3")),
            InputField("Pair.d", "d", <<"Int">>, IntValueNode("4")) >>

\* GraphQLEnumType._value_map: the names of the values of E
EnumValues == {"A", "B"}

is_enum_type(T) == T = <<"E">>

\* what the directive of an input field or type raises: the directive of
\* Pair.d is another one than that of the other fields
DirectiveMessage(id) ==
    IF id = "Pair.d" THEN "[ERROR] on_post_input_coercion of d"
    ELSE "[ERROR] on_post_input_coercion"

\* the on_post_input_coercion chain of an input field or type: the directive
\* raises (the one of the type In a MultipleException of two exceptions), or
\* there is none and the value passes through
post_input_coercion_directives(id, value) ==
    IF id \in request.directives
    THEN IF id = "In"
         THEN MultipleException(<<Raised("[ERROR] first of In"),
                                  Raised("[ERROR] second of In")>>)
         ELSE Raised(DirectiveMessage(id))
    ELSE value

\* Int.coerce_input
coerce_input(value) == IF value.t = "int" THEN value ELSE Raised("TypeError")

\* Int.parse_literal
parse_literal(node) ==
    IF node.t = "IntValueNode" THEN IntV(node.v) ELSE Undefined

\* ------------------------------------------------------------------------
\* Literal coercion.  A literal coercer returns a value, Undefined, or the
\* exception that a directive raised in it.
\* ------------------------------------------------------------------------
is_missing_variable(value_node, variables) ==
    /\ value_node.t = "VariableNode"
    /\ \/ Len(variables.s) = 0
       \/ ~HasKey(variables, value_node.v)
       \/ is_invalid_value(get(variables, value_node.v, Undefined))

\* the wrapped coercer has to be called
Continue == [t |-> "continue", v |-> "", s |-> <<>>]

\* the wrapper giving None for a variable without runtime value
null_and_variable_coercer_wrapper_none(node, variables) ==
    IF node = NoNode THEN Undefined
    ELSE IF node.t = "NullValueNode" THEN Null
    ELSE IF node.t = "VariableNode"
    THEN IF Len(variables.s) = 0 THEN Null
         ELSE LET value == get(variables, node.v, Undefined)
              IN  IF is_invalid_value(value) THEN Null ELSE value
    ELSE Continue

null_and_variable_coercer_wrapper(node, variables) ==
    IF node = NoNode THEN Undefined
    ELSE IF node.t = "NullValueNode" THEN Null
    ELSE IF node.t = "VariableNode"
    THEN IF Len(variables.s) = 0 THEN Undefined
         ELSE LET value == get(variables, node.v, Undefined)
              IN  IF is_invalid_value(value) THEN Undefined ELSE value
    ELSE Continue

literal_scalar_coercer(node, variables) ==
    LET wrapper == null_and_variable_coercer_wrapper(node, variables)
    IN  IF wrapper # Continue THEN wrapper
        ELSE LET value == parse_literal(node)
             IN  IF ~is_invalid_value(value) THEN value ELSE Undefined

literal_enum_coercer(node, variables) ==
    LET wrapper == null_and_variable_coercer_wrapper(node, variables)
    IN  IF wrapper # Continue THEN wrapper
        ELSE IF node.t # "EnumValueNode" THEN Undefined
        ELSE IF node.v \in EnumValues THEN StrV(node.v)
        ELSE Undefined

\* the wrapper that skips the directives for every variable
literal_directives_coercer_of_literals(result, node, id, is_input_field) ==
    IF result.t = "exc" THEN result
    ELSE IF result = Undefined \/ node.t = "VariableNode"
    THEN result
    ELSE post_input_coercion_directives(id, result)

\* result is what the wrapped coercer returned
literal_directives_coercer(result, node, id, is_input_field) ==
    IF result.t = "exc" THEN result
    ELSE IF result = Undefined \/ (node.t = "VariableNode" /\ ~is_input_field)
    THEN result
    ELSE post_input_coercion_directives(id, result)

RECURSIVE get_literal_coercer(_, _, _)
RECURSIVE literal_list_items(_, _, _, _, _)
RECURSIVE literal_object_fields(_, _, _, _, _)

\* the coercer that rejects every null value, not only the null literal
literal_non_null_coercer_of_values(T, node, variables) ==
    IF node.t = "NullValueNode" THEN Undefined
    ELSE LET value == get_literal_coercer(Tail(T), node, variables)
         IN  IF value = Null THEN Undefined ELSE value

literal_non_null_coercer(T, node, variables) ==
    IF node.t = "NullValueNode" THEN Undefined
    ELSE get_literal_coercer(Tail(T), node, variables)

literal_list_coercer(T, node, variables) ==
    LET wrapper == null_and_variable_coercer_wrapper(node, variables)
    IN  IF wrapper # Continue THEN wrapper
        ELSE IF node.t = "ListValueNode"
        THEN literal_list_items(Tail(T), node.s, variables, 1, <<>>)
        ELSE LET coerced_value == get_literal_coercer(Tail(T), node, variables)
             IN  IF coerced_value.t = "exc" THEN coerced_value
                 ELSE IF is_invalid_value(coerced_value) THEN Undefined
                 ELSE Lst(<<coerced_value>>)

\* the loop in which an invalid item fails the list only while the item
\* type is non-null, and is None in the list otherwise
literal_list_items_nullable_none(item_type, values, variables, i, coerced_values) ==
    IF i > Len(values) THEN Lst(coerced_values)
    ELSE LET item_value ==
                 IF is_missing_variable(values[i], variables) THEN Undefined
                 ELSE get_literal_coercer(item_type, values[i], variables)
         IN  IF item_value.t = "exc" THEN item_value
             ELSE IF is_invalid_value(item_value)
             THEN IF is_non_null_type(item_type) THEN Undefined
                  ELSE literal_list_items(item_type, values, variables, i + 1,
                                          Append(coerced_values, Null))
             ELSE literal_list_items(item_type, values, variables, i + 1,
                                     Append(coerced_values, item_value))

\* the loop that coerces every item before it looks at any of them
literal_list_items_all_coerced(item_type, values, variables, i, coerced_values) ==
    IF i > Len(values) THEN Lst(coerced_values)
    ELSE LET missing == is_missing_variable(values[i], variables)
             item_value ==
                 IF missing
                 THEN IF is_non_null_type(item_type) THEN Undefined ELSE Null
                 ELSE get_literal_coercer(item_type, values[i], variables)
             later == literal_list_items(item_type, values, variables, i + 1,
                                         Append(coerced_values, item_value))
         IN  IF item_value.t = "exc" THEN item_value
             ELSE IF later.t = "exc" THEN later
             ELSE IF is_invalid_value(item_value) THEN Undefined
             ELSE later

\* the loop over node.values, from the i-th item on
literal_list_items(item_type, values, variables, i, coerced_values) ==
    IF i > Len(values) THEN Lst(coerced_values)
    ELSE IF is_missing_variable(values[i], variables)
    THEN IF is_non_null_type(item_type) THEN Undefined
         ELSE literal_list_items(item_type, values, variables, i + 1,
                                 Append(coerced_values, Null))
    ELSE LET item_value == get_literal_coercer(item_type, values[i], variables)
         IN  IF item_value.t = "exc" THEN item_value
             ELSE IF is_invalid_value(item_value) THEN Undefined
             ELSE literal_list_items(item_type, values, variables, i + 1,
                                     Append(coerced_values, item_value))

literal_input_object_coercer(input_object, node, variables) ==
    LET wrapper == null_and_variable_coercer_wrapper(node, variables)
    IN  IF wrapper # Continue THEN wrapper
        ELSE IF node.t # "ObjectValueNode" THEN Undefined
        ELSE literal_object_fields(input_fields(input_object), node,
                                   variables, 1, Dict(<<>>))

\* the loop that leaves out a nullable field whose coercion is invalid
literal_object_fields_partial(fields, node, variables, i, coerced_object) ==
    IF i > Len(fields) THEN coerced_object
    ELSE LET input_field == fields[i]
             missing ==
                 \/ ~HasKey(node, input_field.name)
                 \/ is_missing_variable(get(node, input_field.name, NoNode),
                                        variables)
             input_field_node ==
                 IF missing THEN input_field.default_value
                 ELSE get(node, input_field.name, NoNode)
             input_field_value ==
                 literal_directives_coercer(
                     get_literal_coercer(input_field.gql_type,
                                         input_field_node, variables),
                     input_field_node, input_field.id, TRUE)
         IN  IF missing /\ input_field.default_value = NoNode
             THEN IF is_non_null_type(input_field.gql_type) THEN Undefined
                  ELSE literal_object_fields(fields, node, variables, i + 1,
                                             coerced_object)
             ELSE IF input_field_value.t = "exc" THEN input_field_value
             ELSE IF is_invalid_value(input_field_value)
             THEN IF is_non_null_type(input_field.gql_type) THEN Undefined
                  ELSE literal_object_fields(fields, node, variables, i + 1,
                                             coerced_object)
             ELSE literal_object_fields(
                      fields, node, variables, i + 1,
                      Put(coerced_object, input_field.name, input_field_value))

\* the loop over the declared input fields, from the i-th field on
literal_object_fields(fields, node, variables, i, coerced_object) ==
    IF i > Len(fields) THEN coerced_object
    ELSE LET input_field == fields[i]
             missing ==
                 \/ ~HasKey(node, input_field.name)
                 \/ is_missing_variable(get(node, input_field.name, NoNode),
                                        variables)
             input_field_node ==
                 IF missing THEN input_field.default_value
                 ELSE get(node, input_field.name, NoNode)
             input_field_value ==
                 literal_directives_coercer(
                     get_literal_coercer(input_field.gql_type,
                                         input_field_node, variables),
                     input_field_node, input_field.id, TRUE)
         IN  IF missing /\ input_field.default_value = NoNode
             THEN IF is_non_null_type(input_field.gql_type) THEN Undefined
                  ELSE literal_object_fields(fields, node, variables, i + 1,
                                             coerced_object)
             ELSE IF input_field_value.t = "exc" THEN input_field_value
             ELSE IF is_invalid_value(input_field_value) THEN Undefined
             ELSE literal_object_fields(
                      fields, node, variables, i + 1,
                      Put(coerced_object, input_field.name, input_field_value))

\* the literal coercer of a type: its wrappers around the coercer of the
\* named type, which runs the (absent) directives of that type
get_literal_coercer(T, node, variables) ==
    IF is_non_null_type(T) THEN literal_non_null_coercer(T, node, variables)
    ELSE IF is_list_type(T) THEN literal_list_coercer(T, node, variables)
    ELSE IF is_leaf_type(T)
    THEN literal_directives_coercer(literal_scalar_coercer(node, variables),
                                    node, T[1], FALSE)
    ELSE IF is_enum_type(T)
    THEN literal_directives_coercer(literal_enum_coercer(node, variables),
                                    node, T[1], FALSE)
    ELSE literal_directives_coercer(
             literal_input_object_coercer(T[1], node, variables),
             node, T[1], FALSE)

\* ------------------------------------------------------------------------
\* Input coercion.  An input coercer returns a CoercionResult (value,
\* errors) or UNDEFINED_VALUE, or it raises.  The value of a result is the
\* value its constructor was given, also when it has errors (its callers
\* read the errors first and never use such a value).  An error of the
\* input side names in "on" the input path its message is about.
\* ------------------------------------------------------------------------
CoercionResult(value, coercion_errors) ==
    [k |-> "result", value |-> value, errors |-> coercion_errors,
     calls |-> <<>>]

\* the coroutine returned UNDEFINED_VALUE
UndefinedResult ==
    [k |-> "undefined", value |-> Undefined, errors |-> <<>>, calls |-> <<>>]

\* the coroutine raised exc
RaisedResult(exc) ==
    [k |-> "raise", value |-> exc, errors |-> <<>>, calls |-> <<>>]

coercion_error(message, path) == Err(message, path, <<>>)

\* results[i] of a gather without return_exceptions: the gather raises if
\* one of its coroutines did
GatherRaises(results) == \E i \in 1..Len(results) : results[i].k = "raise"

FirstRaised(results) ==
    results[CHOOSE i \in 1..Len(results) :
                /\ results[i].k = "raise"
                /\ \A j \in 1..(i - 1) : results[j].k # "raise"]

\* scalar_coercer without its null_coercer_wrapper
input_scalar_coercer_unwrapped(value, path) ==
    LET coerced_value == coerce_input(value)
    IN  IF coerced_value.t = "exc" \/ is_invalid_value(coerced_value)
        THEN CoercionResult(
                 Null, <<coercion_error("Expected type < Int >", path)>>)
        ELSE CoercionResult(coerced_value, <<>>)

input_scalar_coercer(value, path) ==
    IF value = Null THEN CoercionResult(Null, <<>>)
    ELSE LET coerced_value == coerce_input(value)
         IN  IF coerced_value.t = "exc" \/ is_invalid_value(coerced_value)
             THEN CoercionResult(
                      Null, <<coercion_error("Expected type < Int >", path)>>)
             ELSE CoercionResult(coerced_value, <<>>)

input_enum_coercer(value, path) ==
    IF value = Null THEN CoercionResult(Null, <<>>)
    ELSE IF value.t = "str" /\ value.v \in EnumValues
    THEN CoercionResult(value, <<>>)
    ELSE CoercionResult(
             Null, <<coercion_error("Expected type < E >", path)>>)

\* the errors of what a directive raised: one for each exception of a
\* MultipleException
directive_errors(raw_exception, path) ==
    LET exceptions ==
            IF raw_exception.v = "MultipleException" THEN raw_exception.s
            ELSE <<raw_exception>>
    IN  [i \in 1..Len(exceptions) |-> coercion_error(exceptions[i].v, path)]

\* the wrapper that runs no directive
input_directives_coercer_skipped(coercion_result, id, path) == coercion_result

\* the wrapper that runs the directives on a result with errors as well
input_directives_coercer_after_errors(coercion_result, id, path) ==
    IF coercion_result.k # "result" THEN coercion_result
    ELSE LET value == post_input_coercion_directives(id, coercion_result.value)
         IN  IF value.t = "exc"
             THEN CoercionResult(
                      Null,
                      coercion_result.errors \o directive_errors(value, path))
             ELSE CoercionResult(value, coercion_result.errors)

\* coercion_result is what the wrapped coercer returned
input_directives_coercer(coercion_result, id, path) ==
    IF coercion_result.k # "result" THEN coercion_result
    ELSE IF coercion_result.errors # <<>> THEN coercion_result
    ELSE LET value == post_input_coercion_directives(id, coercion_result.value)
         IN  IF value.t = "exc"
             THEN CoercionResult(Null, directive_errors(value, path))
             ELSE CoercionResult(value, <<>>)

RECURSIVE get_input_coercer(_, _, _)
RECURSIVE input_list_items(_, _, _, _)
RECURSIVE input_object_fields(_, _, _, _, _)
RECURSIVE undefined_fields(_, _, _, _)

\* str(schema_type)
RECURSIVE TypeName(_)
TypeName(T) ==
    IF is_non_null_type(T) THEN TypeName(Tail(T)) \o "!"
    ELSE IF is_list_type(T) THEN "[" \o TypeName(Tail(T)) \o "]"
    ELSE T[1]

input_non_null_coercer(T, value, path) ==
    IF value = Null
    THEN CoercionResult(
             Null,
             <<coercion_error(
                   "Expected non-nullable type < " \o TypeName(T)
                       \o " > not to be null",
                   path)>>)
    ELSE get_input_coercer(Tail(T), value, path)

\* the loop appending every item that has no error of its own
input_list_items_keep_adding(results, i, list_errors, coerced_values) ==
    IF i > Len(results) THEN CoercionResult(Lst(coerced_values), list_errors)
    ELSE IF results[i].errors # <<>>
    THEN input_list_items(results, i + 1, list_errors \o results[i].errors,
                          coerced_values)
    ELSE input_list_items(results, i + 1, list_errors,
                          Append(coerced_values, results[i].value))

\* the loop over the gathered item results, from the i-th on
input_list_items(results, i, list_errors, coerced_values) ==
    IF i > Len(results) THEN CoercionResult(Lst(coerced_values), list_errors)
    ELSE IF results[i].errors # <<>>
    THEN input_list_items(results, i + 1, list_errors \o results[i].errors,
                          coerced_values)
    ELSE IF list_errors = <<>>
    THEN input_list_items(results, i + 1, list_errors,
                          Append(coerced_values, results[i].value))
    ELSE input_list_items(results, i + 1, list_errors, coerced_values)

input_list_coercer(T, value, path) ==
    IF value = Null THEN CoercionResult(Null, <<>>)
    ELSE IF value.t = "list"
    THEN LET results ==
                 [i \in 1..Len(value.s) |->
                     get_input_coercer(Tail(T), value.s[i],
                                       PathIdx(path, i - 1))]
         IN  IF GatherRaises(results) THEN FirstRaised(results)
             ELSE input_list_items(results, 1, <<>>, <<>>)
    ELSE LET item == get_input_coercer(Tail(T), value, path)
         IN  IF item.k = "raise" THEN item
             ELSE CoercionResult(Lst(<<item.value>>), item.errors)

input_field_value_coercer(input_field, value, path) ==
    IF is_invalid_value(value)
    THEN IF input_field.default_value # NoNode
         THEN LET coerced ==
                      literal_directives_coercer(
                          get_literal_coercer(input_field.gql_type,
                                              input_field.default_value,
                                              Dict(<<>>)),
                          input_field.default_value, input_field.id, TRUE)
              IN  IF coerced.t = "exc" THEN RaisedResult(coerced)
                  ELSE CoercionResult(coerced, <<>>)
         ELSE IF is_non_null_type(input_field.gql_type)
         THEN CoercionResult(
                  Null,
                  <<coercion_error("Field of required type was not provided",
                                   path)>>)
         ELSE UndefinedResult
    ELSE input_directives_coercer(
             get_input_coercer(input_field.gql_type, value, path),
             input_field.id, path)

\* the loop over the gathered field results, from the i-th field on
input_object_fields(fields, results, i, object_errors, coerced_values) ==
    IF i > Len(fields)
    THEN CoercionResult(coerced_values, object_errors)
    ELSE IF results[i].k = "undefined"
    THEN input_object_fields(fields, results, i + 1, object_errors,
                             coerced_values)
    ELSE IF results[i].errors # <<>>
    THEN input_object_fields(fields, results, i + 1,
                             object_errors \o results[i].errors,
                             coerced_values)
    ELSE IF object_errors = <<>>
    THEN input_object_fields(fields, results, i + 1, object_errors,
                             Put(coerced_values, fields[i].name,
                                 results[i].value))
    ELSE input_object_fields(fields, results, i + 1, object_errors,
                             coerced_values)

\* the loop over the keys of the value, from the i-th on: one error for
\* every key that is not a declared field
undefined_fields(fields, value, path, i) ==
    IF i > Len(value.s) THEN <<>>
    ELSE IF \E f \in 1..Len(fields) : fields[f].name = value.s[i].v
    THEN undefined_fields(fields, value, path, i + 1)
    ELSE <<coercion_error("Field is not defined by type",
                          PathKey(path, value.s[i].v))>>
             \o undefined_fields(fields, value, path, i + 1)

\* input_object_coercer from the return of its gather on: the loop over
\* the field results, then the loop over the keys of the value
input_object_gathered(fields, value, path, results) ==
    LET declared == input_object_fields(fields, results, 1, <<>>, Dict(<<>>))
    IN  CoercionResult(
            declared.value,
            declared.errors \o undefined_fields(fields, value, path, 1))

input_input_object_coercer(input_object_type, value, path) ==
    IF value = Null THEN CoercionResult(Null, <<>>)
    ELSE IF value.t # "obj"
    THEN CoercionResult(
             Null,
             <<coercion_error("Expected type to be an object", path)>>)
    ELSE LET fields == input_fields(input_object_type)
             results ==
                 [i \in 1..Len(fields) |->
                     input_field_value_coercer(
                         fields[i], get(value, fields[i].name, Undefined),
                         PathKey(path, fields[i].name))]
         IN  IF GatherRaises(results) THEN FirstRaised(results)
             ELSE input_object_gathered(fields, value, path, results)

\* the input coercer of a type: its wrappers around the coercer of the
\* named type, which runs the (absent) directives of that type
get_input_coercer(T, value, path) ==
    IF is_non_null_type(T) THEN input_non_null_coercer(T, value, path)
    ELSE IF is_list_type(T) THEN input_list_coercer(T, value, path)
    ELSE IF is_leaf_type(T)
    THEN input_directives_coercer(input_scalar_coercer(value, path),
                                  T[1], path)
    ELSE IF is_enum_type(T)
    THEN input_directives_coercer(input_enum_coercer(value, path),
                                  T[1], path)
    ELSE input_directives_coercer(
             input_input_object_coercer(T[1], value, path), T[1], path)

\* ------------------------------------------------------------------------
\* Variable coercion
\* ------------------------------------------------------------------------
VariableDefinition(name, graphql_type, default_value) ==
    [name |-> name, graphql_type |-> graphql_type,
     default_value |-> default_value]

\* the results carry in "calls" the coercers the coroutine has awaited
Called(result, calls) == [result EXCEPT !.calls = calls]

\* "Variable < $name > got invalid value < value >; " in front of a message
InvalidValue(var_name, coerce_errors) ==
    [i \in 1..Len(coerce_errors) |->
        [coerce_errors[i] EXCEPT !.on = <<var_name>> \o @]]

variable_coercer_run_input_coercer(executable_variable_definition, raw_variable_values) ==
    LET var_name == executable_variable_definition.name
        var_type == executable_variable_definition.graphql_type
        has_value == HasKey(raw_variable_values, var_name)
        value == get(raw_variable_values, var_name, Undefined)
        default_value == executable_variable_definition.default_value
        coerced == get_literal_coercer(var_type, default_value, Dict(<<>>))
        input == get_input_coercer(var_type, value, <<>>)
    IN  IF ~has_value /\ default_value # NoNode
        THEN IF coerced.t = "exc"
             THEN Called(RaisedResult(coerced), <<"literal_coercer">>)
             ELSE Called(CoercionResult(coerced, <<>>), <<"literal_coercer">>)
        ELSE IF has_value
        THEN IF input.k = "raise" THEN Called(input, <<"input_coercer">>)
             ELSE IF input.errors # <<>>
             THEN Called(CoercionResult(Null, InvalidValue(var_name, input.errors)),
                         <<"input_coercer">>)
             ELSE Called(CoercionResult(input.value, <<>>), <<"input_coercer">>)
        ELSE UndefinedResult

variable_coercer_default_for_null(executable_variable_definition, raw_variable_values) ==
    LET var_name == executable_variable_definition.name
        var_type == executable_variable_definition.graphql_type
        has_value == HasKey(raw_variable_values, var_name)
        value == get(raw_variable_values, var_name, Undefined)
        default_value == executable_variable_definition.default_value
        coerced == get_literal_coercer(var_type, default_value, Dict(<<>>))
        input == get_input_coercer(var_type, value, <<>>)
    IN  IF (~has_value \/ value = Null) /\ default_value # NoNode
        THEN IF coerced.t = "exc"
             THEN Called(RaisedResult(coerced), <<"literal_coercer">>)
             ELSE Called(CoercionResult(coerced, <<>>), <<"literal_coercer">>)
        ELSE IF (~has_value \/ value = Null) /\ is_non_null_type(var_type)
        THEN CoercionResult(
                 Null,
                 <<Err(IF has_value
                       THEN "Variable of non-null type must not be null."
                       ELSE "Variable of required type was not provided.",
                       <<var_name>>, <<>>)>>)
        ELSE IF has_value
        THEN IF input.k = "raise" THEN Called(input, <<"input_coercer">>)
             ELSE IF input.errors # <<>>
             THEN Called(CoercionResult(Null, InvalidValue(var_name, input.errors)),
                         <<"input_coercer">>)
             ELSE Called(CoercionResult(input.value, <<>>), <<"input_coercer">>)
        ELSE UndefinedResult

variable_coercer(executable_variable_definition, raw_variable_values) ==
    LET var_name == executable_variable_definition.name
        var_type == executable_variable_definition.graphql_type
        has_value == HasKey(raw_variable_values, var_name)
        value == get(raw_variable_values, var_name, Undefined)
        default_value == executable_variable_definition.default_value
        coerced == get_literal_coercer(var_type, default_value, Dict(<<>>))
        input == get_input_coercer(var_type, value, <<>>)
    IN  IF ~has_value /\ default_value # NoNode
        THEN IF coerced.t = "exc"
             THEN Called(RaisedResult(coerced), <<"literal_coercer">>)
             ELSE Called(CoercionResult(coerced, <<>>), <<"literal_coercer">>)
        ELSE IF (~has_value \/ value = Null) /\ is_non_null_type(var_type)
        THEN CoercionResult(
                 Null,
                 <<Err(IF has_value
                       THEN "Variable of non-null type must not be null."
                       ELSE "Variable of required type was not provided.",
                       <<var_name>>, <<>>)>>)
        ELSE IF has_value
        THEN IF input.k = "raise" THEN Called(input, <<"input_coercer">>)
             ELSE IF input.errors # <<>>
             THEN Called(CoercionResult(Null, InvalidValue(var_name, input.errors)),
                         <<"input_coercer">>)
             ELSE Called(CoercionResult(input.value, <<>>), <<"input_coercer">>)
        ELSE UndefinedResult

RECURSIVE zip_variable_results(_, _, _, _, _)
\* the loop over zip(definitions, results), from the i-th on
zip_variable_results(definitions, results, i, coerced_values, coercion_errors) ==
    IF i > Len(definitions)
    THEN [k |-> "result", values |-> coerced_values, errors |-> coercion_errors]
    ELSE IF results[i].k = "undefined"
    THEN zip_variable_results(definitions, results, i + 1, coerced_values,
                              coercion_errors)
    ELSE IF results[i].k = "raise"
    THEN \* value, errors = result: an exception cannot be unpacked
         [k |-> "raise", values |-> Dict(<<>>),
          errors |-> <<Err("TypeError", <<>>, <<>>)>>]
    ELSE IF results[i].errors # <<>>
    THEN zip_variable_results(definitions, results, i + 1, coerced_values,
                              coercion_errors \o results[i].errors)
    ELSE zip_variable_results(definitions, results, i + 1,
                              Put(coerced_values, definitions[i].name,
                                  results[i].value),
                              coercion_errors)

\* coerce_variables once its gather has returned results
coerce_variables(definitions, results) ==
    zip_variable_results(definitions, results, 1, Dict(<<>>), <<>>)

\* ------------------------------------------------------------------------
\* Argument coercion
\* ------------------------------------------------------------------------
ArgumentDefinition(name, graphql_type, default_value, directive) ==
    [name |-> name, graphql_type |-> graphql_type,
     default_value |-> default_value, directive |-> directive]

\* the result of one argument_coercer coroutine: a value (k = "result") or
\* the exception it raised (k = "raise", its error in errors); coerced is
\* the coerced_value it handed to the directives
ArgumentResult(k, value, argument_errors, calls, coerced) ==
    [k |-> k, value |-> value, errors |-> argument_errors, calls |-> calls,
     coerced |-> coerced]

PendingArgument == ArgumentResult("pending", Null, <<>>, <<>>, Undefined)

ArgumentRaises(message, name, calls) ==
    ArgumentResult("raise", Null, <<Err(message, <<name>>, <<>>)>>, calls,
                   Undefined)

\* the end of argument_coercer handing every coerced value to the
\* on_argument_execution chain, UNDEFINED_VALUE included
argument_directives_of_undefined(argument_definition, coerced_value, calls) ==
    IF coerced_value.t = "exc"
    THEN ArgumentResult("raise", Null, <<Err(coerced_value.v, <<>>, <<>>)>>,
                        calls, Undefined)
    ELSE IF argument_definition.directive = "raise"
    THEN ArgumentResult("raise", Null,
                        <<Err("[ERROR] on_argument_execution", <<>>, <<>>)>>,
                        Append(calls, "directives"), coerced_value)
    ELSE ArgumentResult("result", coerced_value, <<>>,
                        Append(calls, "directives"), coerced_value)

\* the end of argument_coercer: the on_argument_execution chain, which
\* raises if the argument carries such a directive
argument_directives(argument_definition, coerced_value, calls) ==
    IF coerced_value.t = "exc"
    THEN ArgumentResult("raise", Null, <<Err(coerced_value.v, <<>>, <<>>)>>,
                        calls, Undefined)
    ELSE IF coerced_value = Undefined
    THEN ArgumentResult("result", Undefined, <<>>, calls, Undefined)
    ELSE IF argument_definition.directive = "raise"
    THEN ArgumentResult("raise", Null,
                        <<Err("[ERROR] on_argument_execution", <<>>, <<>>)>>,
                        Append(calls, "directives"), coerced_value)
    ELSE ArgumentResult("result", coerced_value, <<>>,
                        Append(calls, "directives"), coerced_value)

argument_coercer_default_first(argument_definition, argument_node, variables) ==
    LET name == argument_definition.name
        arg_type == argument_definition.graphql_type
        default_value == argument_definition.default_value
    IN  IF default_value # NoNode
        THEN argument_directives(
                 argument_definition,
                 get_literal_coercer(arg_type, default_value, variables),
                 <<"literal_coercer">>)
        ELSE IF is_non_null_type(arg_type)
        THEN ArgumentRaises("Argument of required type was not provided.",
                            name, <<>>)
        ELSE argument_directives(argument_definition, Undefined, <<>>)

argument_coercer_default_for_null(argument_definition, argument_node, variables) ==
    LET name == argument_definition.name
        arg_type == argument_definition.graphql_type
        default_value == argument_definition.default_value
        is_variable == argument_node.t = "VariableNode"
        has_value ==
            IF is_variable
            THEN Len(variables.s) # 0 /\ HasKey(variables, argument_node.v)
            ELSE argument_node # NoNode
        is_null ==
            IF is_variable
            THEN has_value /\ get(variables, argument_node.v, Undefined) = Null
            ELSE argument_node.t = "NullValueNode"
        coerced_value ==
            get_literal_coercer(arg_type, argument_node, variables)
    IN  IF (~has_value \/ is_null) /\ default_value # NoNode
        THEN argument_directives(
                 argument_definition,
                 get_literal_coercer(arg_type, default_value, variables),
                 <<"literal_coercer">>)
        ELSE IF (~has_value \/ is_null) /\ is_non_null_type(arg_type)
        THEN IF is_null
             THEN ArgumentRaises("Argument of non-null type must not be null.",
                                 name, <<>>)
             ELSE IF is_variable
             THEN ArgumentRaises(
                      "Argument of required type was provided the variable which was not provided a runtime value.",
                      name, <<>>)
             ELSE ArgumentRaises("Argument of required type was not provided.",
                                 name, <<>>)
        ELSE IF has_value
        THEN IF argument_node.t = "NullValueNode"
             THEN argument_directives(argument_definition, Null, <<>>)
             ELSE IF is_variable
             THEN argument_directives(
                      argument_definition,
                      get(variables, argument_node.v, Undefined), <<>>)
             ELSE IF is_invalid_value(coerced_value)
             THEN ArgumentRaises("Argument has invalid value.", name,
                                 <<"literal_coercer">>)
             ELSE argument_directives(argument_definition, coerced_value,
                                      <<"literal_coercer">>)
        ELSE argument_directives(argument_definition, Undefined, <<>>)

\* argument_node is the value node of the argument, NoNode if the field
\* node has no such argument
argument_coercer(argument_definition, argument_node, variables) ==
    LET name == argument_definition.name
        arg_type == argument_definition.graphql_type
        default_value == argument_definition.default_value
        is_variable == argument_node.t = "VariableNode"
        has_value ==
            IF is_variable
            THEN Len(variables.s) # 0 /\ HasKey(variables, argument_node.v)
            ELSE argument_node # NoNode
        is_null ==
            IF is_variable
            THEN has_value /\ get(variables, argument_node.v, Undefined) = Null
            ELSE argument_node.t = "NullValueNode"
        coerced_value ==
            get_literal_coercer(arg_type, argument_node, variables)
    IN  IF ~has_value /\ default_value # NoNode
        THEN argument_directives(
                 argument_definition,
                 get_literal_coercer(arg_type, default_value, variables),
                 <<"literal_coercer">>)
        ELSE IF (~has_value \/ is_null) /\ is_non_null_type(arg_type)
        THEN IF is_null
             THEN ArgumentRaises("Argument of non-null type must not be null.",
                                 name, <<>>)
             ELSE IF is_variable
             THEN ArgumentRaises(
                      "Argument of required type was provided the variable which was not provided a runtime value.",
                      name, <<>>)
             ELSE ArgumentRaises("Argument of required type was not provided.",
                                 name, <<>>)
        ELSE IF has_value
        THEN IF argument_node.t = "NullValueNode"
             THEN argument_directives(argument_definition, Null, <<>>)
             ELSE IF is_variable
             THEN argument_directives(
                      argument_definition,
                      get(variables, argument_node.v, Undefined), <<>>)
             ELSE IF is_invalid_value(coerced_value)
             THEN ArgumentRaises("Argument has invalid value.", name,
                                 <<"literal_coercer">>)
             ELSE argument_directives(argument_definition, coerced_value,
                                      <<"literal_coercer">>)
        ELSE argument_directives(argument_definition, Undefined, <<>>)

RECURSIVE zip_argument_results(_, _, _, _, _)
\* the loop over zip(argument_definitions, results), from the i-th on
zip_argument_results(definitions, results, i, coerced_values, coercion_errors) ==
    IF i > Len(definitions)
    THEN IF coercion_errors # <<>>
         THEN [k |-> "raise", values |-> Dict(<<>>), errors |-> coercion_errors]
         ELSE [k |-> "result", values |-> coerced_values, errors |-> <<>>]
    ELSE IF results[i].k = "raise"
    THEN zip_argument_results(
             definitions, results, i + 1, coerced_values,
             coercion_errors \o located_error(results[i].errors, <<>>))
    ELSE IF results[i].value # Undefined
    THEN zip_argument_results(definitions, results, i + 1,
                              Put(coerced_values, definitions[i].name,
                                  results[i].value),
                              coercion_errors)
    ELSE zip_argument_results(definitions, results, i + 1, coerced_values,
                              coercion_errors)

coerce_arguments_first_error(definitions, results) ==
    IF \E i \in 1..Len(results) : results[i].k = "raise"
    THEN [k |-> "raise", values |-> Dict(<<>>),
          errors |-> FirstRaised(results).errors]
    ELSE zip_argument_results(definitions, results, 1, Dict(<<>>), <<>>)

\* coerce_arguments once its gather has returned results
coerce_arguments(definitions, results) ==
    zip_argument_results(definitions, results, 1, Dict(<<>>), <<>>)

\* ------------------------------------------------------------------------
\* The requests
\* ------------------------------------------------------------------------
\* a dict of the entries whose value is not Undefined
DictOf(entries) ==
    LET Present(e) == e.s[1] # Undefined
    IN  Dict(SelectSeq(entries, Present))

\* a field node with the arguments whose node is not NoNode
ArgumentsOf(entries) ==
    LET Present(e) == e.s[1] # NoNode
    IN  Dict(SelectSeq(entries, Present))

\* what a request gives a variable of type Int; Undefined: nothing
RawInts == {Undefined, Null, IntV("1"), StrV("s")}

\* query ($v: Int|Int! [= 5], $w: Int!) { f(x: ..., y: ...) } against
\* f(x: Int|Int! [= 9] [@raising], y: Int!)
ScalarRequests ==
    { [variable_definitions |->
           << VariableDefinition("v", tv, dv),
              VariableDefinition("w", <<"NN", "Int">>, NoNode) >>,
       raw_variable_values |-> DictOf(<<Entry("v", rv), Entry("w", rw)>>),
       argument_definitions |->
           << ArgumentDefinition("x", tx, dx, xd),
              ArgumentDefinition("y", <<"NN", "Int">>, NoNode, "none") >>,
       argument_nodes |-> ArgumentsOf(<<Entry("x", xn), Entry("y", yn)>>),
       directives |-> {},
       return_type |-> rt] :
        tv \in {<<"Int">>, <<"NN", "Int">>},
        dv \in {NoNode, IntValueNode("5")},
        rv \in RawInts,
        rw \in {Undefined, IntV("2")},
        tx \in {<<"Int">>, <<"NN", "Int">>},
        dx \in {NoNode, IntValueNode("9")},
        xd \in {"none", "raise"},
        xn \in {NoNode, NullValueNode, VariableNode("v"), IntValueNode("1"),
                StringValueNode("s")},
        yn \in {NoNode, IntValueNode("2")},
        rt \in {<<"Int">>, <<"NN", "Int">>} }

\* what a request gives for a value of type Inner
RawInners ==
    { DictOf(<<Entry("p", p), Entry("q", q), Entry("zz", zz)>>) :
        p \in {Undefined, IntV("1"), StrV("s")},
        q \in {Undefined, StrV("s")},
        zz \in {Undefined, IntV("0")} }

\* what a request gives for a value of type In
RawIns ==
    { DictOf(<<Entry("a", a), Entry("b", b), Entry("n", n), Entry("z", z)>>) :
        a \in {Undefined, Null, IntV("1"), StrV("s")},
        b \in {Undefined, IntV("1"), StrV("s")},
        n \in {Undefined, Null, IntV("1")} \cup RawInners,
        z \in {Undefined, IntV("0")} }

\* query ($v: In [= {a: 1}], $w: Int!) { f(x: $v, y: 2) } against
\* f(x: In, y: Int!): Int
ObjectRequests ==
    { [variable_definitions |->
           << VariableDefinition("v", <<"In">>, dv),
              VariableDefinition("w", <<"NN", "Int">>, NoNode) >>,
       raw_variable_values |-> DictOf(<<Entry("v", rv), Entry("w", rw)>>),
       argument_definitions |->
           << ArgumentDefinition("x", <<"In">>, NoNode, "none"),
              ArgumentDefinition("y", <<"NN", "Int">>, NoNode, "none") >>,
       argument_nodes |->
           ArgumentsOf(<<Entry("x", VariableNode("v")),
                         Entry("y", IntValueNode("2"))>>),
       directives |-> ds,
       return_type |-> <<"Int">>] :
        dv \in {NoNode, ObjectValueNode(<<Entry("a", IntValueNode("1"))>>)},
        rv \in {Undefined, Null, IntV("1")} \cup RawIns,
        rw \in {Undefined, IntV("2")},
        ds \in {{}, {"In.b"}, {"In.a", "Inner.p"}} }

\* the literals a field node gives for an argument of type In
LiteralIns ==
    { NoNode,
      ObjectValueNode(<<Entry("a", IntValueNode("1"))>>),
      ObjectValueNode(<<Entry("a", VariableNode("v"))>>),
      ObjectValueNode(<<Entry("a", IntValueNode("1")),
                        Entry("b", IntValueNode("2"))>>) }

\* query ($v: Int, $w: Int!) { f(x: {...}, y: ...) } against
\* f(x: In [= {a: 1}], y: Int!): Int
LiteralRequests ==
    { [variable_definitions |->
           << VariableDefinition("v", <<"Int">>, NoNode),
              VariableDefinition("w", <<"NN", "Int">>, NoNode) >>,
       raw_variable_values |->
           DictOf(<<Entry("v", rv), Entry("w", IntV("2"))>>),
       argument_definitions |->
           << ArgumentDefinition("x", <<"In">>, dx, "none"),
              ArgumentDefinition("y", <<"NN", "Int">>, NoNode, "none") >>,
       argument_nodes |-> ArgumentsOf(<<Entry("x", xn), Entry("y", yn)>>),
       directives |-> ds,
       return_type |-> <<"Int">>] :
        rv \in {Undefined, IntV("1")},
        dx \in {NoNode, ObjectValueNode(<<Entry("a", IntValueNode("1"))>>)},
        xn \in LiteralIns,
        yn \in {NoNode, IntValueNode("2")},
        ds \in {{}, {"In.b"}, {"In.a"}} }

\* query ($v: Int) { f(x: ...) } against f(x: Int), with a directive on
\* the scalar Int that raises in on_post_input_coercion
DirectedRequests ==
    { [variable_definitions |-> << VariableDefinition("v", <<"Int">>, NoNode) >>,
       raw_variable_values |-> DictOf(<<Entry("v", rv)>>),
       argument_definitions |->
           << ArgumentDefinition("x", <<"Int">>, NoNode, "none") >>,
       argument_nodes |-> ArgumentsOf(<<Entry("x", xn)>>),
       directives |-> {"Int"},
       return_type |-> <<"Int">>] :
        rv \in RawInts,
        xn \in {NoNode, VariableNode("v"), IntValueNode("1"),
                StringValueNode("s")} }

Requests ==
    ScalarRequests \cup ObjectRequests \cup LiteralRequests
        \cup DirectedRequests

\* ------------------------------------------------------------------------
\* One request, from its raw variables to its response
\* ------------------------------------------------------------------------
FieldPath == <<"f">>

InitRequest ==
    /\ request \in Requests
    /\ pc = "coerce_variables"
    /\ variable_results = [i \in 1..Len(request.variable_definitions) |-> Pending]
    /\ variable_values = NotReturned
    /\ argument_results =
           [i \in 1..Len(request.argument_definitions) |-> PendingArgument]
    /\ coerced_arguments = NotReturned
    /\ schema = [a |-> <<"Obj">>, b |-> <<"Int">>, x |-> <<"Int">>]
    /\ tasks = [p \in {FieldPath} |-> NewTask]
    /\ errors = <<>>
    /\ response = NoResponse
    /\ coercion = NoCoercion
    /\ gathered = <<>>
    /\ completed = <<>>
    /\ runs = <<>>
    /\ resolution = NoResolution
    /\ cursor = NoCursor
    /\ invoked = <<>>
    /\ outcome = NoOutcome
    /\ completion = NoCompletion
    /\ step = [at |-> "idle", runtime_type |-> Null]
    /\ trace = <<>>
    /\ completion_outcome = NoOutcome

\* one of the variable_coercer coroutines that coerce_variables gathers
\* returns or raises
VariableCoercer(i) ==
    /\ pc = "coerce_variables"
    /\ variable_results[i].k = "pending"
    /\ variable_results' =
           [variable_results EXCEPT ![i] =
               variable_coercer(request.variable_definitions[i],
                                request.raw_variable_values)]
    /\ UNCHANGED <<execution_vars, request, pc, variable_values,
                   argument_results, coerced_arguments, coercion_vars,
                   resolution_vars, abstract_vars>>

\* the gather of coerce_variables is complete: it returns, or raises
CoerceVariables ==
    /\ pc = "coerce_variables"
    /\ \A i \in 1..Len(variable_results) : variable_results[i].k # "pending"
    /\ variable_values' =
           coerce_variables(request.variable_definitions, variable_results)
    /\ pc' = IF variable_values'.k = "raise" THEN "raised" ELSE "execute"
    /\ UNCHANGED <<execution_vars, request, variable_results,
                   argument_results, coerced_arguments, coercion_vars,
                   resolution_vars, abstract_vars>>

\* with coercion errors the request is answered at once, without them the
\* root field is resolved: resolve_field awaits coerce_arguments
Execute ==
    /\ pc = "execute"
    /\ IF variable_values.errors # <<>>
       THEN /\ response' = [done |-> TRUE, data |-> Null,
                            errors |-> variable_values.errors]
            /\ pc' = "done"
       ELSE /\ response' = response
            /\ pc' = "coerce_arguments"
    /\ UNCHANGED <<schema, tasks, errors, request, variable_results,
                   variable_values, argument_results, coerced_arguments,
                   coercion_vars,
                   resolution_vars, abstract_vars>>

\* one of the argument_coercer coroutines that coerce_arguments gathers
\* returns or raises
ArgumentCoercer(i) ==
    /\ pc = "coerce_arguments"
    /\ argument_results[i].k = "pending"
    /\ argument_results' =
           [argument_results EXCEPT ![i] =
               argument_coercer(
                   request.argument_definitions[i],
                   get(request.argument_nodes,
                       request.argument_definitions[i].name, NoNode),
                   variable_values.values)]
    /\ UNCHANGED <<execution_vars, request, pc, variable_results,
                   variable_values, coerced_arguments, coercion_vars,
                   resolution_vars, abstract_vars>>

\* the gather of coerce_arguments is complete: resolve_field goes on with
\* the resolver and the output coercion, or with the aggregate raised
ResolveRootField ==
    /\ pc = "coerce_arguments"
    /\ \A i \in 1..Len(argument_results) : argument_results[i].k # "pending"
    /\ coerced_arguments' =
           coerce_arguments(request.argument_definitions, argument_results)
    /\ LET w == IF coerced_arguments'.k = "raise"
                THEN handle_field_error(coerced_arguments'.errors, FieldPath,
                                        request.return_type, <<>>)
                ELSE complete_value_catching_error(request.return_type, Ok,
                                                   FieldPath)
       IN  /\ errors' = errors \o w.log
           /\ tasks' = [tasks EXCEPT ![FieldPath] =
                           [st |-> "done", raw |-> Ok, res |-> w]]
    /\ pc' = "respond"
    /\ UNCHANGED <<schema, response, request, variable_results,
                   variable_values, argument_results, coercion_vars,
                   resolution_vars, abstract_vars>>

\* the root field is done: the response is assembled
RespondRequest ==
    /\ pc = "respond"
    /\ LET w == tasks[FieldPath].res
       IN  response' =
               [done |-> TRUE,
                data |-> IF w.st = "raise" THEN Null
                         ELSE Dict(<<Entry("f", w.val)>>),
                errors |-> errors \o w.errs]
    /\ pc' = "done"
    /\ UNCHANGED <<schema, tasks, errors, request, variable_results,
                   variable_values, argument_results, coerced_arguments,
                   coercion_vars,
                   resolution_vars, abstract_vars>>

NextRequest ==
    \/ \E i \in 1..Len(variable_results) : VariableCoercer(i)
    \/ CoerceVariables
    \/ Execute
    \/ \E i \in 1..Len(argument_results) : ArgumentCoercer(i)
    \/ ResolveRootField
    \/ RespondRequest

SpecRequest == InitRequest /\ [][NextRequest]_vars

\* ========================================================================
\* One coercer on its own: applied twice to the same input
\* ========================================================================
\* ------------------------------------------------------------------------
\* Bounds
\* ------------------------------------------------------------------------
\* longest list value given to an input coercer
MaxValues == 3

\* longest list literal given to a literal coercer
MaxNodes == 3

\* how many times the coercer is applied to its input
MaxRuns == 2

\* ------------------------------------------------------------------------
\* The inputs
\* ------------------------------------------------------------------------
InputCall(T, value, directives) ==
    [way |-> "input", T |-> T, value |-> value, variables |-> Null,
     directives |-> directives]

LiteralCall(T, node, variables, directives) ==
    [way |-> "literal", T |-> T, value |-> node, variables |-> variables,
     directives |-> directives]

\* runtime values for the types Int and E, wrapped or not
LeafValues == {Null, IntV("1"), StrV("s"), StrV("A")}

LeafInputTypes ==
    { <<"Int">>, <<"NN", "Int">>, <<"E">>, <<"NN", "E">> }

ListInputTypes ==
    { <<"L", "Int">>, <<"L", "NN", "Int">>, <<"NN", "L", "Int">>,
      <<"NN", "L", "NN", "Int">>, <<"L", "E">> }

ListValues == { Lst(q) : q \in SeqsUpTo({Null, IntV("1"), StrV("s")}, MaxValues) }

\* dict values for the type In, alone and as the items of a list
InValues ==
    { DictOf(<<Entry("a", a), Entry("b", b), Entry("n", n), Entry("z", z)>>) :
        a \in {Undefined, Null, IntV("1"), StrV("s")},
        b \in {Undefined, StrV("s")},
        n \in {Undefined, Null,
               DictOf(<<Entry("p", StrV("s")), Entry("zz", IntV("0"))>>)},
        z \in {Undefined, IntV("0")} }

InLists ==
    { Lst(q) : q \in SeqsUpTo({ Null, Dict(<<>>),
                                Dict(<<Entry("a", IntV("1"))>>) }, 2) }

PairValues ==
    { DictOf(<<Entry("c", c), Entry("d", d)>>) :
        c \in {Undefined, IntV("1")}, d \in {Undefined, StrV("s")} }

InputCalls ==
    { InputCall(T, value, {}) :
        T \in LeafInputTypes \cup ListInputTypes,
        value \in LeafValues \cup ListValues }
    \cup { InputCall(T, value, {"Int"}) :
             T \in { <<"Int">>, <<"NN", "Int">> }, value \in LeafValues }
    \cup { InputCall(T, value, ds) :
             T \in { <<"In">>, <<"NN", "In">> },
             value \in {Null, IntV("1")} \cup InValues,
             ds \in { {}, {"In.b"}, {"In.a"} } }
    \cup { InputCall(<<"In">>, value, ds) :
             value \in {Null, IntV("1")} \cup InValues,
             ds \in { {"In"}, {"In", "In.a"} } }
    \cup { InputCall(<<"L", "In">>, value, ds) :
             value \in InLists, ds \in { {}, {"In.b"} } }
    \cup { InputCall(<<"Pair">>, value, ds) :
             value \in PairValues, ds \in SUBSET {"Pair.c", "Pair.d"} }

\* variable maps: empty, without v, with v, with v null, with v undefined
VariableMaps ==
    { Dict(<<>>),
      Dict(<<Entry("w", IntV("2"))>>),
      Dict(<<Entry("v", IntV("1"))>>),
      Dict(<<Entry("v", Null)>>),
      Dict(<<Entry("v", Undefined)>>) }

ItemNodes ==
    { NullValueNode, VariableNode("v"), IntValueNode("1"),
      StringValueNode("s") }

NamedNodes ==
    { NoNode, EnumValueNode("A"), EnumValueNode("Z"),
      ObjectValueNode(<<Entry("a", IntValueNode("1"))>>),
      ObjectValueNode(<<Entry("a", VariableNode("v"))>>),
      ObjectValueNode(<<>>),
      ObjectValueNode(<<Entry("a", IntValueNode("1")),
                        Entry("b", StringValueNode("s"))>>),
      ObjectValueNode(<<Entry("b", VariableNode("v")),
                        Entry("a", IntValueNode("1"))>>),
      ObjectValueNode(<<Entry("a", IntValueNode("1")),
                        Entry("n", ObjectValueNode(
                                       <<Entry("p", IntValueNode("1"))>>))>>),
      ObjectValueNode(<<Entry("a", IntValueNode("1")),
                        Entry("n", ObjectValueNode(<<>>))>>) }

ListNodes == { ListValueNode(q) : q \in SeqsUpTo(ItemNodes, MaxNodes) }

LiteralTypes ==
    { <<"Int">>, <<"NN", "Int">>, <<"E">>, <<"In">>,
      <<"L", "Int">>, <<"L", "NN", "Int">>, <<"NN", "L", "Int">>,
      <<"L", "E">>, <<"L", "In">> }

LiteralCalls ==
    { LiteralCall(T, node, variables, ds) :
        T \in LiteralTypes,
        node \in ItemNodes \cup NamedNodes \cup ListNodes,
        variables \in VariableMaps,
        ds \in { {}, {"Int"} } }
    \cup { LiteralCall(<<"In">>, node, variables, {"In.a"}) :
              node \in NamedNodes, variables \in VariableMaps }

Calls == InputCalls \cup LiteralCalls

\* ------------------------------------------------------------------------
\* The sibling coercions an input coercer gathers: the items of a list
\* value under a list type, the declared fields of a dict under an input
\* object type.  The non-null wrapper of the type hands a value that is
\* not null to the coercer it wraps.
\* ------------------------------------------------------------------------
GatheringType(T) == IF is_non_null_type(T) THEN Tail(T) ELSE T

GathersItems(c) ==
    /\ c.way = "input"
    /\ is_list_type(GatheringType(c.T))
    /\ c.value.t = "list"

GathersFields(c) ==
    /\ c.way = "input"
    /\ GatheringType(c.T) \in { <<"In">>, <<"Pair">> }
    /\ c.value.t = "obj"

\* how many coroutines the gather is given
Gathered(c) ==
    IF GathersItems(c) THEN Len(c.value.s)
    ELSE IF GathersFields(c) THEN Len(input_fields(GatheringType(c.T)[1]))
    ELSE 0

\* the i-th coroutine given to the gather: what it returns or raises
SiblingCoercer(c, i) ==
    IF GathersItems(c)
    THEN get_input_coercer(Tail(GatheringType(c.T)), c.value.s[i],
                           PathIdx(<<>>, i - 1))
    ELSE LET input_field == input_fields(GatheringType(c.T)[1])[i]
         IN  input_field_value_coercer(
                 input_field, get(c.value, input_field.name, Undefined),
                 PathKey(<<>>, input_field.name))

\* the coercer reading its results in the order the coercions completed
input_coercer_gathered_as_completed(c, results) ==
    LET reordered == [n \in 1..Len(completed) |-> results[completed[n]]]
    IN  input_list_items(reordered, 1, <<>>, <<>>)

\* the coercer from the return of its gather on
input_coercer_gathered(c, results) ==
    IF GathersItems(c) THEN input_list_items(results, 1, <<>>, <<>>)
    ELSE input_directives_coercer(
             input_object_gathered(input_fields(GatheringType(c.T)[1]),
                                   c.value, <<>>, results),
             GatheringType(c.T)[1], <<>>)


Run(result, order) == [result |-> result, completed |-> order]

InitCoercion ==
    /\ coercion \in Calls
    /\ gathered = [i \in 1..Gathered(coercion) |-> Pending]
    /\ completed = <<>>
    /\ runs = <<>>
    /\ request = [NoRequest EXCEPT !.directives = coercion.directives]
    /\ pc = "coerce"
    /\ variable_results = <<>>
    /\ variable_values = NotReturned
    /\ argument_results = <<>>
    /\ coerced_arguments = NotReturned
    /\ schema = [a |-> <<"Obj">>, b |-> <<"Int">>, x |-> <<"Int">>]
    /\ tasks = [p \in {} |-> NewTask]
    /\ errors = <<>>
    /\ response = NoResponse
    /\ resolution = NoResolution
    /\ cursor = NoCursor
    /\ invoked = <<>>
    /\ outcome = NoOutcome
    /\ completion = NoCompletion
    /\ step = [at |-> "idle", runtime_type |-> Null]
    /\ trace = <<>>
    /\ completion_outcome = NoOutcome

\* one of the gathered coercions returns or raises; once one has raised the
\* gather has raised and the others are no longer awaited
SiblingCoercion(i) ==
    /\ Len(runs) < MaxRuns
    /\ gathered[i].k = "pending"
    /\ ~GatherRaises(gathered)
    /\ gathered' = [gathered EXCEPT ![i] = SiblingCoercer(coercion, i)]
    /\ completed' = Append(completed, i)
    /\ UNCHANGED <<execution_vars, request_vars, coercion, runs,
                   resolution_vars, abstract_vars>>

\* the gather of the input coercer returns or raises, and the coercer with
\* it; an input coercer that gathers nothing runs at once
InputCoercion ==
    /\ coercion.way = "input"
    /\ Len(runs) < MaxRuns
    /\ \/ GatherRaises(gathered)
       \/ \A i \in 1..Len(gathered) : gathered[i].k # "pending"
    /\ runs' =
           Append(runs,
                  Run(IF Gathered(coercion) = 0
                      THEN get_input_coercer(coercion.T, coercion.value, <<>>)
                      ELSE IF GatherRaises(gathered)
                      THEN FirstRaised(gathered)
                      ELSE input_coercer_gathered(coercion, gathered),
                      completed))
    /\ gathered' = [i \in 1..Gathered(coercion) |-> Pending]
    /\ completed' = <<>>
    /\ UNCHANGED <<execution_vars, request_vars, coercion, resolution_vars, abstract_vars>>

\* the literal coercer runs: it awaits its item and field coercers one
\* after the other
LiteralCoercion ==
    /\ coercion.way = "literal"
    /\ Len(runs) < MaxRuns
    /\ runs' =
           Append(runs,
                  Run(get_literal_coercer(coercion.T, coercion.value,
                                          coercion.variables),
                      <<>>))
    /\ UNCHANGED <<execution_vars, request_vars, coercion, gathered,
                   completed, resolution_vars, abstract_vars>>

NextCoercion ==
    \/ \E i \in 1..Len(gathered) : SiblingCoercion(i)
    \/ InputCoercion
    \/ LiteralCoercion

SpecCoercion == InitCoercion /\ [][NextCoercion]_vars

\* ------------------------------------------------------------------------
\* The resolution of one field: resolve_field_value_or_error, with the
\* on_field_execution directives of the field node and of the field
\* definition around the resolver.  A callable of a chain is a record: a
\* directive (kind "none" if it does not implement the hook, "next" if its
\* hook calls next, "raise" if its hook raises, "return" if its hook returns
\* without calling next, "arguments" if the coercion of its arguments
\* raises) or the raw resolver (kind "value", "raise", or "exception" if it
\* returns an exception as its value).
\* ------------------------------------------------------------------------
MaxDirectives == 2

DirectiveKinds == {"none", "next", "raise", "return", "arguments"}

NodeDirectiveNames == <<"n1", "n2", "n3", "n4">>

Directive(name, kind) == [name |-> name, kind |-> kind, is |-> "directive"]

RawResolver(kind) == [name |-> "resolver", kind |-> kind, is |-> "resolver"]

RECURSIVE wraps_from(_, _, _)
\* the loop of wraps_with_directives over reversed(directives_definition),
\* from the i-th directive down
wraps_from(directives_definition, i, func) ==
    IF i = 0 THEN func
    ELSE wraps_from(directives_definition, i - 1,
                    IF directives_definition[i].kind # "none"
                    THEN <<directives_definition[i]>> \o func
                    ELSE func)

\* the loop that wraps in the order of the directives: the last directive
\* ends up outermost
wraps_with_directives_reversed(directives_definition, func) ==
    LET n == Len(directives_definition)
    IN  wraps_from([i \in 1..n |-> directives_definition[n + 1 - i]], n, func)

\* the callable is the sequence of the callables that call one another,
\* outermost first
wraps_with_directives(directives_definition, func) ==
    wraps_from(directives_definition, Len(directives_definition), func)

\* the directives of the field definition around the raw resolver
get_field_resolver(field) ==
    wraps_with_directives(field.definition_directives,
                          <<RawResolver(field.resolver)>>)

\* the resolver of the definition around the directives of the field node
resolver_around_node_directives(field) ==
    wraps_with_directives(field.definition_directives,
                          wraps_with_directives(field.node_directives,
                                                <<RawResolver(field.resolver)>>))

\* the directives of the field node around the resolver of the definition
resolve_field_resolver(field) ==
    wraps_with_directives(field.node_directives, get_field_resolver(field))

\* the handler lets the exception go
reraised(e) == [k |-> "raise", value |-> e]

\* except Exception as e: return e
except_Exception(e) == [k |-> "return", value |-> e]

returned(result) == [k |-> "return", value |-> result]

\* the fields that are resolved
Resolutions ==
    { [node_directives |->
           [i \in 1..Len(q) |-> Directive(NodeDirectiveNames[i], q[i])],
       definition_directives |-> d,
       computed |-> c, arguments |-> a, resolver |-> r,
       output_directives |-> o] :
        q \in SeqsUpTo(DirectiveKinds, MaxDirectives),
        d \in {<<>>} \cup { <<Directive("d1", k)>> : k \in DirectiveKinds },
        c \in {"ok", "raise"},
        a \in {"ok", "raise"},
        r \in {"value", "raise", "exception"},
        o \in {"ok", "raise"} }

InitResolve ==
    /\ resolution \in Resolutions
    /\ cursor = [at |-> "compute", chain |-> <<>>, index |-> 0]
    /\ invoked = <<>>
    /\ outcome = NoOutcome
    /\ completion = NoCompletion
    /\ step = [at |-> "idle", runtime_type |-> Null]
    /\ trace = <<>>
    /\ completion_outcome = NoOutcome
    /\ coercion = NoCoercion
    /\ gathered = <<>>
    /\ completed = <<>>
    /\ runs = <<>>
    /\ request = NoRequest
    /\ pc = "resolve"
    /\ variable_results = <<>>
    /\ variable_values = NotReturned
    /\ argument_results = <<>>
    /\ coerced_arguments = NotReturned
    /\ schema = [a |-> <<"Obj">>, b |-> <<"Int">>, x |-> <<"Int">>]
    /\ tasks = [p \in {} |-> NewTask]
    /\ errors = <<>>
    /\ response = NoResponse

\* the callable at index i of the chain is called
Call(chain, i) ==
    [at |-> IF chain[i].is = "directive" THEN "arguments_coercer"
            ELSE "resolver",
     chain |-> chain, index |-> i]

Return(result) ==
    /\ cursor' = [cursor EXCEPT !.at = "returned"]
    /\ outcome' = result

\* compute_directive_nodes for the directives of the field node, and the
\* wrapping of the resolver
ComputeDirectiveNodes ==
    /\ cursor.at = "compute"
    /\ invoked' = Append(invoked, "compute_directive_nodes")
    /\ IF resolution.computed = "raise"
       THEN Return(except_Exception(Raised("Unknown Directive")))
       ELSE /\ cursor' = [at |-> "coerce_arguments",
                          chain |-> resolve_field_resolver(resolution),
                          index |-> 0]
            /\ outcome' = outcome
    /\ UNCHANGED <<execution_vars, request_vars, coercion_vars, resolution,
                   abstract_vars>>

\* await coerce_arguments(...), then the call of the resolver
CoerceFieldArguments ==
    /\ cursor.at = "coerce_arguments"
    /\ invoked' = Append(invoked, "coerce_arguments")
    /\ IF resolution.arguments = "raise"
       THEN Return(except_Exception(
                MultipleException(<<Raised("Argument has invalid value.")>>)))
       ELSE /\ cursor' = Call(cursor.chain, 1)
            /\ outcome' = outcome
    /\ UNCHANGED <<execution_vars, request_vars, coercion_vars, resolution,
                   abstract_vars>>

\* directive_executor awaits the arguments coercer of the directive
DirectiveArguments ==
    /\ cursor.at = "arguments_coercer"
    /\ LET directive == cursor.chain[cursor.index]
       IN  /\ invoked' = Append(invoked, "arguments_coercer " \o directive.name)
           /\ IF directive.kind = "arguments"
              THEN Return(except_Exception(
                       Raised("Argument of " \o directive.name)))
              ELSE /\ cursor' = [cursor EXCEPT !.at = "on_field_execution"]
                   /\ outcome' = outcome
    /\ UNCHANGED <<execution_vars, request_vars, coercion_vars, resolution,
                   abstract_vars>>

\* directive_executor awaits the hook of the directive, which calls next,
\* raises, or returns
DirectiveHook ==
    /\ cursor.at = "on_field_execution"
    /\ LET directive == cursor.chain[cursor.index]
       IN  /\ invoked' = Append(invoked, "on_field_execution " \o directive.name)
           /\ IF directive.kind = "raise"
              THEN Return(except_Exception(Raised("Hook of " \o directive.name)))
              ELSE IF directive.kind = "return"
              THEN /\ cursor' = [cursor EXCEPT !.at = "on_pre_output_coercion"]
                   /\ outcome' = [k |-> "pending", value |-> StrV(directive.name)]
              ELSE /\ cursor' = Call(cursor.chain, cursor.index + 1)
                   /\ outcome' = outcome
    /\ UNCHANGED <<execution_vars, request_vars, coercion_vars, resolution,
                   abstract_vars>>

\* resolver_executor awaits the raw resolver
Resolver ==
    /\ cursor.at = "resolver"
    /\ invoked' = Append(invoked, "resolver")
    /\ LET kind == cursor.chain[cursor.index].kind
       IN  IF kind = "raise"
           THEN Return(except_Exception(Raised("Resolver")))
           ELSE IF kind = "exception"
           THEN Return(returned(Raised("Resolver")))
           ELSE /\ cursor' = [cursor EXCEPT !.at = "on_pre_output_coercion"]
                /\ outcome' = [k |-> "pending", value |-> IntV("1")]
    /\ UNCHANGED <<execution_vars, request_vars, coercion_vars, resolution,
                   abstract_vars>>

\* the result is no exception: the on_pre_output_coercion directives of
\* the type of the field
PreOutputCoercion ==
    /\ cursor.at = "on_pre_output_coercion"
    /\ invoked' = Append(invoked, "on_pre_output_coercion")
    /\ IF resolution.output_directives = "raise"
       THEN Return(except_Exception(Raised("Output directive")))
       ELSE Return(returned(outcome.value))
    /\ UNCHANGED <<execution_vars, request_vars, coercion_vars, resolution,
                   abstract_vars>>

NextResolve ==
    \/ ComputeDirectiveNodes
    \/ CoerceFieldArguments
    \/ DirectiveArguments
    \/ DirectiveHook
    \/ Resolver
    \/ PreOutputCoercion

SpecResolve == InitResolve /\ [][NextResolve]_vars

\* ------------------------------------------------------------------------
\* Completion of an abstract type.  The schema:
\*   type Cat implements Named, type Dog, type Human implements Named,
\*   union Pet = Cat | Dog, interface Named, scalar Int
\* ------------------------------------------------------------------------
TypeNames == {"Cat", "Dog", "Human", "Int", "Pet", "Named"}

\* a type of the schema, as the object the schema holds for it
TypeObject(name) == [t |-> "type", v |-> name, s |-> <<>>]

\* schema.find_type for a name the schema defines
find_type(name) == TypeObject(name)

\* is_object_type of what a type resolver answered
is_object_runtime_type(runtime_type) ==
    runtime_type.t = "type" /\ runtime_type.v \in {"Cat", "Dog", "Human"}

\* GraphQLUnionType._possible_types_set, filled by the bake of the union
possible_types_set(abstract_type) ==
    IF abstract_type = <<"Pet">> THEN {"Cat", "Dog"} ELSE {}

\* GraphQLInterfaceType.possibleTypes, filled by the bake of the object
\* types that implement the interface
possibleTypes(abstract_type) ==
    IF abstract_type = <<"Named">> THEN {"Cat", "Human"}
    ELSE possible_types_set(abstract_type)

\* the abstract type is of a class that defines is_possible_type: the union
has_is_possible_type(abstract_type) == abstract_type = <<"Pet">>

\* GraphQLUnionType.is_possible_type
is_possible_type(abstract_type, gql_type) ==
    gql_type.v \in possible_types_set(abstract_type)

MustResolveToObject ==
    Raised("Abstract type must resolve to an Object type at runtime")

NotAPossibleType == Raised("Runtime Object type is not a possible type for")

\* AttributeError of return_type.is_possible_type on an interface
NoIsPossibleType ==
    Raised("'GraphQLInterfaceType' object has no attribute 'is_possible_type'")

\* ensure_valid_runtime_type: the runtime type, or the exception raised
ensure_valid_runtime_type(runtime_type_or_name, return_type) ==
    LET runtime_type ==
            IF runtime_type_or_name.t = "str"
            THEN find_type(runtime_type_or_name.v)
            ELSE runtime_type_or_name
    IN  IF ~is_object_runtime_type(runtime_type) THEN MustResolveToObject
        ELSE IF ~has_is_possible_type(return_type) THEN NoIsPossibleType
        ELSE IF ~is_possible_type(return_type, runtime_type)
        THEN NotAPossibleType
        ELSE runtime_type

raises(e) == [k |-> "raise", value |-> e]

\* the abstract_coercer calls: the type resolver answers None, a type of the
\* schema or the name of one; the sub-selection returns or raises
Completions ==
    [abstract_type : {<<"Pet">>, <<"Named">>},
     type_resolver : {"none", "custom"},
     result : {Null, Ok},
     runtime_type_or_name :
         {Null} \cup { TypeObject(n) : n \in TypeNames }
                \cup { StrV(n) : n \in TypeNames },
     fields : {"value", "raise"}]

At(at, runtime_type) == [at |-> at, runtime_type |-> runtime_type]

InitAbstract ==
    /\ completion \in Completions
    /\ step = At("null_coercer_wrapper", Null)
    /\ trace = <<>>
    /\ completion_outcome = NoOutcome
    /\ resolution = NoResolution
    /\ cursor = NoCursor
    /\ invoked = <<>>
    /\ outcome = NoOutcome
    /\ coercion = NoCoercion
    /\ gathered = <<>>
    /\ completed = <<>>
    /\ runs = <<>>
    /\ request = NoRequest
    /\ pc = "complete"
    /\ variable_results = <<>>
    /\ variable_values = NotReturned
    /\ argument_results = <<>>
    /\ coerced_arguments = NotReturned
    /\ schema = [a |-> <<"Obj">>, b |-> <<"Int">>, x |-> <<"Int">>]
    /\ tasks = [p \in {} |-> NewTask]
    /\ errors = <<>>
    /\ response = NoResponse

\* null_coercer_wrapper: None is returned as it is
NullCoercerWrapper ==
    /\ step.at = "null_coercer_wrapper"
    /\ IF completion.result = Null
       THEN /\ completion_outcome' = returned(Null)
            /\ step' = At("done", Null)
       ELSE /\ step' = At("type_resolver", Null)
            /\ UNCHANGED completion_outcome
    /\ UNCHANGED <<execution_vars, request_vars, coercion_vars,
                   resolution_vars, completion, trace>>

\* the type resolver of the abstract type, default_type_resolver if it has
\* none, is called with the result
TypeResolver ==
    /\ step.at = "type_resolver"
    /\ trace' = Append(trace,
                       IF completion.type_resolver = "none"
                       THEN <<"default_type_resolver">>
                       ELSE <<"type_resolver">>)
    /\ step' = At("ensure_valid_runtime_type", completion.runtime_type_or_name)
    /\ UNCHANGED <<execution_vars, request_vars, coercion_vars,
                   resolution_vars, completion, completion_outcome>>

\* what it answered is validated before complete_object_value is called
EnsureValidRuntimeType ==
    /\ step.at = "ensure_valid_runtime_type"
    /\ LET runtime_type ==
               ensure_valid_runtime_type(step.runtime_type,
                                         completion.abstract_type)
       IN  IF runtime_type.t = "exc"
           THEN /\ completion_outcome' = raises(runtime_type)
                /\ step' = At("done", Null)
           ELSE /\ step' = At("complete_object_value", runtime_type)
                /\ UNCHANGED completion_outcome
    /\ UNCHANGED <<execution_vars, request_vars, coercion_vars,
                   resolution_vars, completion, trace>>

\* complete_object_value: execute_fields on the sub-selection collected for
\* the runtime type
CompleteObjectValue ==
    /\ step.at = "complete_object_value"
    /\ trace' = Append(trace, <<"execute_fields", step.runtime_type.v>>)
    /\ completion_outcome' =
           IF completion.fields = "raise" THEN raises(Raised("field error"))
           ELSE returned(Dict(<<Entry("__typename",
                                      StrV(step.runtime_type.v))>>))
    /\ step' = At("done", Null)
    /\ UNCHANGED <<execution_vars, request_vars, coercion_vars,
                   resolution_vars, completion>>

NextAbstract ==
    \/ NullCoercerWrapper
    \/ TypeResolver
    \/ EnsureValidRuntimeType
    \/ CompleteObjectValue

SpecAbstract == InitAbstract /\ [][NextAbstract]_vars

\* ------------------------------------------------------------------------
\* Properties of the request side
\* ------------------------------------------------------------------------
\* the errors of results[i], results[i + 1], ... in that order
RECURSIVE ConcatErrors(_, _)
ConcatErrors(results, i) ==
    IF i > Len(results) THEN <<>>
    ELSE results[i].errors \o ConcatErrors(results, i + 1)

\* the argument_coercer coroutines that raised
FailedArguments ==
    { i \in 1..Len(argument_results) : argument_results[i].k = "raise" }

ArgumentNode(i) ==
    get(request.argument_nodes, request.argument_definitions[i].name, NoNode)

\* argument i is of non-null type, declares no default and has no node
RequiredAndOmitted(i) ==
    /\ is_non_null_type(request.argument_definitions[i].graphql_type)
    /\ request.argument_definitions[i].default_value = NoNode
    /\ ArgumentNode(i) = NoNode

NotProvided(i) ==
    Err("Argument of required type was not provided.",
        <<request.argument_definitions[i].name>>, <<>>)

VariableDefinitionOf(node) ==
    request.variable_definitions[
        CHOOSE i \in 1..Len(request.variable_definitions) :
            request.variable_definitions[i].name = node.v]

\* argument i is bound to a variable that declares a default value
BoundToDefaulted(i) ==
    /\ ArgumentNode(i).t = "VariableNode"
    /\ VariableDefinitionOf(ArgumentNode(i)).default_value # NoNode

\* the literal coercion of the default of a variable definition
CoercedDefault(definition) ==
    get_literal_coercer(definition.graphql_type, definition.default_value,
                        Dict(<<>>))

\* the argument_coercer coroutine of argument i returned value, having
\* handed it to the directives of the argument
ArgumentIs(i, value) ==
    /\ argument_results[i].coerced = value
    /\ request.argument_definitions[i].directive = "none" =>
           /\ argument_results[i].k = "result"
           /\ argument_results[i].value = value

\* C6: once an argument bound to a variable that declares a default has been
\* coerced: if the request left the variable out, the value of the argument
\* is the coerced default of the variable (5 for the default literal 5); if
\* the request gave the variable as null and the type of the argument is
\* nullable, the value of the argument is null and no default was coerced
\* for it.
C6_VariableDefaultInterplay ==
    \A i \in 1..Len(argument_results) :
        (argument_results[i].k # "pending" /\ BoundToDefaulted(i)) =>
            LET name == ArgumentNode(i).v
                definition == VariableDefinitionOf(ArgumentNode(i))
                arg_type == request.argument_definitions[i].graphql_type
            IN  /\ ~HasKey(request.raw_variable_values, name) =>
                       /\ ArgumentIs(i, CoercedDefault(definition))
                       /\ definition.default_value = IntValueNode("5") =>
                              argument_results[i].coerced = IntV("5")
                /\ ( /\ HasKey(request.raw_variable_values, name)
                     /\ get(request.raw_variable_values, name, Undefined) = Null
                     /\ ~is_non_null_type(arg_type) ) =>
                       /\ ArgumentIs(i, Null)
                       /\ argument_results[i].calls = <<"directives">>

C6_Witness ==
    /\ response.done
    /\ BoundToDefaulted(1)
    /\ request.argument_definitions[1].default_value # NoNode
    /\ request.argument_definitions[1].graphql_type = <<"Int">>
    /\ request.argument_definitions[1].directive = "none"
    /\ get(request.raw_variable_values, "v", Undefined) = Null
    /\ argument_results[1].k = "result"
    /\ argument_results[1].value = Null
    /\ response.data = Dict(<<Entry("f", Ok)>>)

\* the map of coerced variables gives the variable of a node the value null
VariableIsNull(node) ==
    /\ node.t = "VariableNode"
    /\ HasKey(variable_values.values, node.v)
    /\ get(variable_values.values, node.v, Undefined) = Null

\* the map of coerced variables has no entry for the variable of a node
VariableIsMissing(node) ==
    /\ node.t = "VariableNode"
    /\ ~HasKey(variable_values.values, node.v)

\* the argument_coercer coroutine of argument i raised this message, having
\* awaited neither the literal coercer nor the directives
RaisedOnly(i, message) ==
    /\ argument_results[i].k = "raise"
    /\ argument_results[i].errors =
           <<Err(message, <<request.argument_definitions[i].name>>, <<>>)>>
    /\ argument_results[i].calls = <<>>

\* C7: once an argument of non-null type has been coerced: an explicit null
\* (a null literal, or a variable whose coerced value is null) raised "must
\* not be null"; a variable without entry in the variable map, no default
\* declared, raised "was provided the variable ... which was not provided a
\* runtime value"; no argument node, no default declared, raised "was not
\* provided"; and in each case neither the literal coercer nor the
\* directives of the argument were awaited.
C7_NonNullArgumentErrors ==
    \A i \in 1..Len(argument_results) :
        ( /\ argument_results[i].k # "pending"
          /\ is_non_null_type(request.argument_definitions[i].graphql_type) ) =>
            LET node == ArgumentNode(i)
                no_default ==
                    request.argument_definitions[i].default_value = NoNode
            IN  /\ (node.t = "NullValueNode" \/ VariableIsNull(node)) =>
                       RaisedOnly(i, "Argument of non-null type must not be null.")
                /\ (VariableIsMissing(node) /\ no_default) =>
                       RaisedOnly(i, "Argument of required type was provided the variable which was not provided a runtime value.")
                /\ (node = NoNode /\ no_default) =>
                       RaisedOnly(i, "Argument of required type was not provided.")

C7_Witness ==
    /\ response.done
    /\ request.argument_definitions[1].directive = "raise"
    /\ VariableIsMissing(ArgumentNode(1))
    /\ RaisedOnly(1, "Argument of required type was provided the variable which was not provided a runtime value.")
    /\ ArgumentNode(2) = NoNode
    /\ RaisedOnly(2, "Argument of required type was not provided.")

\* variable i is of non-null type and declares no default
RequiredVariable(i) ==
    /\ is_non_null_type(request.variable_definitions[i].graphql_type)
    /\ request.variable_definitions[i].default_value = NoNode

RawValue(i) ==
    get(request.raw_variable_values, request.variable_definitions[i].name,
        Undefined)

\* the variable_coercer coroutine of variable i returned this one error,
\* having awaited no coercer
FailedOnly(i, message) ==
    variable_results[i] =
        CoercionResult(
            Null, <<Err(message, <<request.variable_definitions[i].name>>, <<>>)>>)

\* the execution of the operation has not started
NotExecuted ==
    /\ pc \notin {"coerce_arguments", "respond"}
    /\ tasks[FieldPath].st = "scheduled"
    /\ \A i \in 1..Len(argument_results) : argument_results[i].k = "pending"
    /\ errors = <<>>

\* C8: for a variable of non-null type without default that the request
\* leaves out or gives as null: its variable_coercer returns the one error
\* "was not provided", respectively "must not be null", without awaiting the
\* input coercer; the map coerce_variables returns has no entry for it; the
\* execution never starts, and the response has null data and that error.
C8_RequiredVariableErrors ==
    \A i \in 1..Len(variable_results) :
        (RequiredVariable(i) /\ RawValue(i) \in {Undefined, Null}) =>
            /\ variable_results[i].k # "pending" =>
                   IF RawValue(i) = Undefined
                   THEN FailedOnly(i, "Variable of required type was not provided.")
                   ELSE FailedOnly(i, "Variable of non-null type must not be null.")
            /\ ~HasKey(variable_values.values,
                       request.variable_definitions[i].name)
            /\ NotExecuted
            /\ response.done =>
                   /\ response.data = Null
                   /\ \E e \in 1..Len(response.errors) :
                          response.errors[e] = variable_results[i].errors[1]

C8_Witness ==
    /\ response.done
    /\ RequiredVariable(1)
    /\ HasKey(request.raw_variable_values, "v")
    /\ RawValue(1) = Null
    /\ FailedOnly(1, "Variable of non-null type must not be null.")
    /\ RawValue(2) = Undefined
    /\ FailedOnly(2, "Variable of required type was not provided.")
    /\ Len(response.errors) = 2

\* the names of the variables whose variable_coercer returned a value
\* without error
CoercedVariables ==
    { request.variable_definitions[i].name :
        i \in { j \in 1..Len(variable_results) :
                  /\ variable_results[j].k = "result"
                  /\ variable_results[j].errors = <<>> } }

\* C9: once the gather of coerce_variables is complete, coerce_variables
\* returns a map and a list of errors; the errors are those of every
\* variable, concatenated in declaration order; the map has an entry, the
\* coerced value, exactly for the variables that produced a value without
\* error.
C9_CoerceVariablesAggregates ==
    variable_values.k # "pending" =>
        /\ variable_values.k = "result"
        /\ variable_values.errors = ConcatErrors(variable_results, 1)
        /\ Keys(variable_values.values) = CoercedVariables
        /\ \A i \in 1..Len(variable_results) :
               request.variable_definitions[i].name \in CoercedVariables =>
                   get(variable_values.values,
                       request.variable_definitions[i].name, Undefined)
                       = variable_results[i].value

\* coerce_variables raised although variable w alone had an error to report
C9_Witness ==
    /\ variable_values.k = "raise"
    /\ pc = "raised"
    /\ variable_results[1].k = "raise"
    /\ FailedOnly(2, "Variable of required type was not provided.")
    /\ ~response.done

\* the errors of the declared fields of an input object value, each field
\* coerced on its own, in declaration order
RECURSIVE DeclaredFieldErrors(_, _, _, _)
DeclaredFieldErrors(fields, value, path, i) ==
    IF i > Len(fields) THEN <<>>
    ELSE input_field_value_coercer(
             fields[i], get(value, fields[i].name, Undefined),
             PathKey(path, fields[i].name)).errors
         \o DeclaredFieldErrors(fields, value, path, i + 1)

\* how many of the errors are this one
CountError(coercion_errors, error) ==
    Cardinality({ i \in 1..Len(coercion_errors) : coercion_errors[i] = error })

\* the input coercion of value, a dict, as input_object_type at path is
\* horizontally complete
HorizontallyComplete(input_object_type, value, path) ==
    LET fields == input_fields(input_object_type)
        result == input_input_object_coercer(input_object_type, value, path)
    IN  /\ result.k = "result"
        /\ result.errors =
               DeclaredFieldErrors(fields, value, path, 1)
                   \o undefined_fields(fields, value, path, 1)
        /\ \A i \in 1..Len(fields) :
               ( /\ ~HasKey(value, fields[i].name)
                 /\ fields[i].default_value = NoNode
                 /\ is_non_null_type(fields[i].gql_type) ) =>
                   CountError(
                       result.errors,
                       coercion_error("Field of required type was not provided",
                                      PathKey(path, fields[i].name))) = 1
        /\ \A key \in Keys(value) :
               (\A i \in 1..Len(fields) : fields[i].name # key) =>
                   CountError(
                       result.errors,
                       coercion_error("Field is not defined by type",
                                      PathKey(path, key))) = 1

\* C10: once a variable of type In given a dict has been coerced, its
\* variable_coercer returned a result whose errors are those of the input
\* coercion of the dict, and that coercion is horizontally complete, for the
\* dict and for the dict nested in it as field n: the result carries the
\* errors of every declared field, "was not provided" once for every missing
\* non-null field without default, and "is not defined by type" once for
\* every key that is not a declared field.
C10_InputObjectHorizontallyComplete ==
    \A i \in 1..Len(variable_results) :
        ( /\ variable_results[i].k # "pending"
          /\ request.variable_definitions[i].graphql_type = <<"In">>
          /\ RawValue(i).t = "obj" ) =>
            /\ variable_results[i].k = "result"
            /\ variable_results[i].errors =
                   InvalidValue(
                       request.variable_definitions[i].name,
                       input_input_object_coercer("In", RawValue(i), <<>>).errors)
            /\ HorizontallyComplete("In", RawValue(i), <<>>)
            /\ get(RawValue(i), "n", Undefined).t = "obj" =>
                   HorizontallyComplete("Inner", get(RawValue(i), "n", Undefined),
                                        <<"n">>)

\* the variable_coercer of v raised on the dict {}: field a is missing and
\* required, the directive of field b raised on its default
C10_Witness ==
    /\ request.variable_definitions[1].graphql_type = <<"In">>
    /\ RawValue(1) = Dict(<<>>)
    /\ request.directives = {"In.b"}
    /\ variable_results[1].k = "raise"
    /\ variable_results[1].value = Raised("[ERROR] on_post_input_coercion")

\* ------------------------------------------------------------------------
\* Order of the recorded errors
\* ------------------------------------------------------------------------
\* the position of a root field in the selection set of the operation
SelectionIndex(key) ==
    LET sel == Selection("Query")
    IN  IF \E n \in 1..Len(sel) : sel[n] = key
        THEN CHOOSE n \in 1..Len(sel) : sel[n] = key
        ELSE 0

\* the root field entry under which an error was recorded
OwningEntry(error) == SelectionIndex(error.path[1])

\* C11: the errors sibling fields record in execution_context.errors are
\* ordered by the selection order of their owning field entries, not by the
\* order in which the fields complete: no error of a later entry precedes an
\* error of an earlier entry, in the shared list and in the response.
C11_ErrorsInSelectionOrder ==
    /\ \A i, j \in 1..Len(errors) :
          i < j => OwningEntry(errors[i]) <= OwningEntry(errors[j])
    /\ \A i, j \in 1..Len(response.errors) :
          i < j => OwningEntry(response.errors[i]) <= OwningEntry(response.errors[j])

\* both root fields recorded an error and the response is assembled; the
\* second field of the selection completed first
C11_Witness ==
    /\ response.done
    /\ Len(errors) = 2
    /\ errors[1].path = <<"b">>
    /\ errors[2].path = <<"a">>
    /\ response.errors = errors
    /\ response.data = Dict(<<Entry("a", Null), Entry("b", Null)>>)

\* ------------------------------------------------------------------------
\* Directive errors of literal coercion
\* ------------------------------------------------------------------------
DirectiveError == "[ERROR] on_post_input_coercion"

\* the literal argument_coercer i coerces: the node of the argument, or the
\* default of its definition when the argument has no value
CoercedLiteral(i) ==
    LET node == ArgumentNode(i)
        has_value ==
            IF node.t = "VariableNode"
            THEN HasKey(variable_values.values, node.v)
            ELSE node # NoNode
    IN  IF ~has_value /\ request.argument_definitions[i].default_value # NoNode
        THEN request.argument_definitions[i].default_value
        ELSE node

\* a post-input-coercion directive raises while the literal of argument i
\* is coerced
ArgumentDirectiveRaises(i) ==
    /\ CoercedLiteral(i).t \notin {"None", "VariableNode", "NullValueNode"}
    /\ get_literal_coercer(request.argument_definitions[i].graphql_type,
                           CoercedLiteral(i), variable_values.values).t = "exc"

\* a post-input-coercion directive raises while the default literal of
\* variable i, or of an input field missing from its value, is coerced
VariableDirectiveRaises(i) ==
    LET definition == request.variable_definitions[i]
    IN  IF HasKey(request.raw_variable_values, definition.name)
        THEN get_input_coercer(definition.graphql_type, RawValue(i), <<>>).k
                 = "raise"
        ELSE /\ definition.default_value # NoNode
             /\ get_literal_coercer(definition.graphql_type,
                                    definition.default_value, Dict(<<>>)).t
                    = "exc"

\* the errors of a list that carry the message
WithMessage(coercion_errors, message) ==
    { e \in 1..Len(coercion_errors) : coercion_errors[e].msg = message }

\* argument coercion: the directive's error is the error of its argument,
\* inside the aggregate coerce_arguments raises, next to those of the
\* sibling arguments
ArgumentDirectiveErrorsAggregated ==
    \A i \in 1..Len(argument_results) :
        (argument_results[i].k # "pending" /\ ArgumentDirectiveRaises(i)) =>
            /\ argument_results[i].k = "raise"
            /\ argument_results[i].errors = <<Err(DirectiveError, <<>>, <<>>)>>
            /\ coerced_arguments.k # "pending" =>
                  /\ coerced_arguments.k = "raise"
                  /\ coerced_arguments.errors = ConcatErrors(argument_results, 1)
                  /\ WithMessage(coerced_arguments.errors, DirectiveError) # {}

\* variable coercion: coerce_variables returns, and its errors hold the
\* directive's error next to those of the sibling variables
VariableDirectiveErrorsReturned ==
    \A i \in 1..Len(variable_results) :
        (variable_values.k # "pending" /\ VariableDirectiveRaises(i)) =>
            /\ variable_values.k = "result"
            /\ WithMessage(variable_values.errors, DirectiveError) # {}
            /\ \A j \in 1..Len(variable_results) :
                  \A e \in 1..Len(variable_results[j].errors) :
                      CountError(variable_values.errors,
                                 variable_results[j].errors[e]) >= 1

\* C12: an error a post-input-coercion directive raises while a literal is
\* coerced does not leave its aggregation scope as a raw exception: in
\* argument coercion it is an error of the aggregate coerce_arguments
\* raises, in variable coercion it is among the errors coerce_variables
\* returns, in both next to the errors of the siblings.
C12_DirectiveErrorsStayInScope ==
    /\ ArgumentDirectiveErrorsAggregated
    /\ VariableDirectiveErrorsReturned

\* the directive of field b raised on its default while the default {a: 1}
\* of variable v was coerced: coerce_variables raised and the error of the
\* sibling variable w is lost
C12_Witness ==
    /\ request.directives = {"In.b"}
    /\ ~HasKey(request.raw_variable_values, "v")
    /\ request.variable_definitions[1].default_value # NoNode
    /\ variable_results[1].k = "raise"
    /\ variable_results[1].value = Raised(DirectiveError)
    /\ FailedOnly(2, "Variable of required type was not provided.")
    /\ variable_values.k = "raise"
    /\ variable_values.errors = <<Err("TypeError", <<>>, <<>>)>>

\* in argument coercion the directive's error of x came out of
\* coerce_arguments together with "was not provided" of its sibling y
C12_ArgumentWitness ==
    /\ ArgumentDirectiveRaises(1)
    /\ coerced_arguments.k = "raise"
    /\ Len(coerced_arguments.errors) = 2
    /\ coerced_arguments.errors[1].msg = DirectiveError
    /\ coerced_arguments.errors[2] = NotProvided(2)
    /\ response.done

\* ------------------------------------------------------------------------
\* Default value of an argument
\* ------------------------------------------------------------------------
\* argument i has a value: its variable is in the variable map, or it has a
\* node that is not a variable
ArgumentHasValue(i) ==
    IF ArgumentNode(i).t = "VariableNode"
    THEN HasKey(variable_values.values, ArgumentNode(i).v)
    ELSE ArgumentNode(i) # NoNode

\* argument i is given null: the null literal, or a variable that is null
ArgumentIsNull(i) ==
    IF ArgumentNode(i).t = "VariableNode"
    THEN /\ HasKey(variable_values.values, ArgumentNode(i).v)
         /\ get(variable_values.values, ArgumentNode(i).v, Undefined) = Null
    ELSE ArgumentNode(i).t = "NullValueNode"

NotProvidedMessages ==
    { "Argument of required type was not provided.",
      "Argument of required type was provided the variable which was not provided a runtime value." }

\* the definition of argument i without its default value
WithoutDefault(i) ==
    [request.argument_definitions[i] EXCEPT !.default_value = NoNode]

\* C14: an argument without value (no node, or a variable that is not in the
\* variable map) whose definition declares a default is coerced to the
\* literal coercion of the default and raises no "not provided" error, also
\* under a non-null type; an argument with a value, explicit null included,
\* is coerced as if no default were declared, so that explicit null for a
\* non-null argument with a default raises "must not be null".
C14_ArgumentDefaultPrecedence ==
    \A i \in 1..Len(argument_results) :
        LET definition == request.argument_definitions[i]
            literal == get_literal_coercer(definition.graphql_type,
                                           definition.default_value,
                                           variable_values.values)
        IN  argument_results[i].k # "pending" =>
              /\ (~ArgumentHasValue(i) /\ definition.default_value # NoNode) =>
                    /\ \A e \in 1..Len(argument_results[i].errors) :
                          argument_results[i].errors[e].msg \notin NotProvidedMessages
                    /\ IF literal.t = "exc"
                       THEN argument_results[i].errors = <<Err(literal.v, <<>>, <<>>)>>
                       ELSE /\ argument_results[i].coerced = literal
                            /\ definition.directive = "none" =>
                                  /\ argument_results[i].k = "result"
                                  /\ argument_results[i].value = literal
              /\ ArgumentHasValue(i) =>
                    /\ argument_results[i] =
                           argument_coercer(WithoutDefault(i), ArgumentNode(i),
                                            variable_values.values)
                    /\ (ArgumentIsNull(i) /\ is_non_null_type(definition.graphql_type)) =>
                           argument_results[i] =
                               ArgumentRaises(
                                   "Argument of non-null type must not be null.",
                                   definition.name, <<>>)

\* x: Int! = 9 was given no node and was coerced to 9
C14_Witness ==
    /\ request.argument_definitions[1].graphql_type = <<"NN", "Int">>
    /\ request.argument_definitions[1].default_value = IntValueNode("9")
    /\ request.argument_definitions[1].directive = "none"
    /\ ArgumentNode(1) = NoNode
    /\ argument_results[1].k = "result"
    /\ argument_results[1].value = IntV("9")
    /\ response.done

\* x: Int! = 9 was given null and failed
C14_NullWitness ==
    /\ request.argument_definitions[1].graphql_type = <<"NN", "Int">>
    /\ request.argument_definitions[1].default_value = IntValueNode("9")
    /\ ArgumentNode(1) = NullValueNode
    /\ argument_results[1] =
           ArgumentRaises("Argument of non-null type must not be null.", "x", <<>>)
    /\ response.done

\* ------------------------------------------------------------------------
\* Properties of the coercers
\* ------------------------------------------------------------------------
\* a run of an input coercer that returned
Returned(run) == coercion.way = "input" /\ run.result.k = "result"

\* an input coercer that returns gives what its gather gives in the order
\* of its arguments, however its coercions completed
GatheredInArgumentOrder ==
    \A r \in 1..Len(runs) :
        Returned(runs[r]) =>
            runs[r].result =
                get_input_coercer(coercion.T, coercion.value, <<>>)

\* C13: a coercer applied twice to the same input (a literal coercer to the
\* same node with the same variables, an input coercer to the same value)
\* gives the same outcome twice, value and ordered errors alike, however
\* the sibling coercions of each run interleave.
C13_CoercionIsDeterministic ==
    Len(runs) = MaxRuns => runs[1].result = runs[2].result

\* the runs that returned agree
ReturnedRunsAgree ==
    (Len(runs) = MaxRuns /\ Returned(runs[1]) /\ Returned(runs[2]))
    => runs[1].result = runs[2].result

\* the dict {} was coerced twice as Pair, both fields carrying a directive
\* that raises on the default: the coercion of d completed first in one run,
\* that of c in the other, and the two runs raised different exceptions
C13_Witness ==
    /\ coercion = InputCall(<<"Pair">>, Dict(<<>>), {"Pair.c", "Pair.d"})
    /\ Len(runs) = MaxRuns
    /\ runs[1] = Run(RaisedResult(Raised(DirectiveMessage("Pair.c"))), <<1>>)
    /\ runs[2] = Run(RaisedResult(Raised(DirectiveMessage("Pair.d"))), <<2>>)

\* a list was coerced twice, its items completing in opposite orders, and
\* both runs returned the same errors
C13_ReturnedWitness ==
    /\ coercion = InputCall(<<"L", "NN", "Int">>,
                            Lst(<<Null, StrV("s"), IntV("1")>>), {})
    /\ Len(runs) = MaxRuns
    /\ runs[1].completed = <<1, 2, 3>>
    /\ runs[2].completed = <<3, 2, 1>>
    /\ Len(runs[1].result.errors) = 2
    /\ runs[1].result = runs[2].result

\* what the i-th sibling coercion of the call gives on its own
Sibling(i) == SiblingCoercer(coercion, i)

Siblings == [i \in 1..Gathered(coercion) |-> Sibling(i)]

\* no entry up to the i-th, in index or declaration order, has an error
ErrorFreeUpTo(i) == \A j \in 1..i : Sibling(j).errors = <<>>

\* how many entries precede the first one that has an error
ErrorFreePrefix == Cardinality({ i \in 1..Gathered(coercion) : ErrorFreeUpTo(i) })

\* C15: in the input coercion of a list or of an input object, an item or
\* field is added to the coerced value exactly if it coerced without error
\* and no earlier entry, in index or declaration order, had an error (a
\* field also only if its coercion gave a value); the errors of all
\* entries, the later ones included, are collected in that order.  (The
\* value is the one the coercer of the input object gives; a directive of
\* the input object type comes after it.)
C15_ValueAccumulation ==
    \A r \in 1..Len(runs) :
        (Returned(runs[r]) /\ Gathered(coercion) > 0) =>
            LET result == runs[r].result
                collected == ConcatErrors(Siblings, 1)
            IN  /\ SubSeq(result.errors, 1, Len(collected)) = collected
                /\ GathersItems(coercion) =>
                      /\ result.errors = collected
                      /\ result.value =
                             Lst([i \in 1..ErrorFreePrefix |-> Sibling(i).value])
                /\ ( /\ GathersFields(coercion)
                     /\ get_wrapped_type(coercion.T) \notin coercion.directives ) =>
                      LET fields == input_fields(GatheringType(coercion.T)[1])
                          added == { i \in 1..Len(fields) :
                                       /\ ErrorFreeUpTo(i)
                                       /\ Sibling(i).k = "result" }
                      IN  /\ result.value.t = "obj"
                          /\ Len(result.value.s) = Cardinality(added)
                          /\ Keys(result.value) = { fields[i].name : i \in added }
                          /\ \A i \in added :
                                get(result.value, fields[i].name, Undefined)
                                    = Sibling(i).value

\* of the list [1, "s", 1] coerced as [Int] the first item alone is in the
\* value: the second has an error, the third comes after it
C15_Witness ==
    /\ coercion = InputCall(<<"L", "Int">>,
                            Lst(<<IntV("1"), StrV("s"), IntV("1")>>), {})
    /\ Len(runs) >= 1
    /\ runs[1].result =
           CoercionResult(
               Lst(<<IntV("1")>>),
               <<coercion_error("Expected type < Int >", <<"1">>)>>)

\* of the dict {a: "s", b: "s", z: 0} coerced as In nothing is in the value
\* and the errors of a, of b and of the unknown key z are collected
C15_FieldsWitness ==
    /\ coercion.T = <<"In">>
    /\ coercion.value = Dict(<<Entry("a", StrV("s")), Entry("b", StrV("s")),
                               Entry("z", IntV("0"))>>)
    /\ Len(runs) >= 1
    /\ runs[1].result.value = Dict(<<>>)
    /\ Len(runs[1].result.errors) = 3

\* the index an error of a list coercion is about: the first segment of the
\* input path it names
ErrorIndex(error) == IdxNum(error.on[1])

\* the coercer under the list coercer, applied to the value itself
AsSingleItem ==
    get_input_coercer(Tail(GatheringType(coercion.T)), coercion.value, <<>>)

\* C16: the input coercion of a list value gathers one coercion per
\* element, that of element i at path + i; whatever the order in which
\* they complete, the errors returned are those of the elements ordered by
\* element index.  A value that is neither null nor a list is coerced by
\* the item coercer at the path of the list and returned as a one-element
\* list.
C16_ListInputCoercion ==
    \A r \in 1..Len(runs) :
        LET result == runs[r].result
        IN  /\ GathersItems(coercion) =>
                  /\ Len(gathered) = Len(coercion.value.s)
                  /\ \A i \in 1..Len(coercion.value.s) :
                        /\ Sibling(i) =
                               get_input_coercer(
                                   Tail(GatheringType(coercion.T)),
                                   coercion.value.s[i], PathIdx(<<>>, i - 1))
                        /\ \A e \in 1..Len(Sibling(i).errors) :
                              ErrorIndex(Sibling(i).errors[e]) = i - 1
                  /\ Returned(runs[r]) =>
                        /\ Len(runs[r].completed) = Len(coercion.value.s)
                        /\ result.errors = ConcatErrors(Siblings, 1)
                        /\ \A e1, e2 \in 1..Len(result.errors) :
                              e1 < e2 => ErrorIndex(result.errors[e1])
                                             <= ErrorIndex(result.errors[e2])
            /\ ( /\ coercion.way = "input"
                 /\ is_list_type(GatheringType(coercion.T))
                 /\ coercion.value.t \notin {"null", "list"} ) =>
                   /\ result.k = "result"
                   /\ result.value = Lst(<<AsSingleItem.value>>)
                   /\ result.errors = AsSingleItem.errors

\* the items of [null, "s", 1] coerced as [Int!] completed last to first
\* and the error of item 0 still precedes that of item 1
C16_Witness ==
    /\ coercion = InputCall(<<"L", "NN", "Int">>,
                            Lst(<<Null, StrV("s"), IntV("1")>>), {})
    /\ Len(runs) >= 1
    /\ runs[1].completed = <<3, 2, 1>>
    /\ runs[1].result.errors =
           << coercion_error("Expected non-nullable type < Int! > not to be null",
                             <<"0">>),
              coercion_error("Expected type < Int >", <<"1">>) >>

\* the value 1 coerced as [Int] is the list [1]
C16_SingleItemWitness ==
    /\ coercion = InputCall(<<"L", "Int">>, IntV("1"), {})
    /\ Len(runs) >= 1
    /\ runs[1].result = CoercionResult(Lst(<<IntV("1")>>), <<>>)

\* the named type under the wrappers of the type carries a directive
TypeDirective(T) == get_wrapped_type(T) \in request.directives

NotToBeNull(T, path) ==
    coercion_error(
        "Expected non-nullable type < " \o TypeName(T) \o " > not to be null",
        path)

\* C17: given null, the input coercer of a scalar, enum, input object or
\* list type returns (null, no errors), which the coercer of the type
\* (coerce_input, the lookup of the enum value, the coercion of fields or
\* items) would not give; the type's directives, if any, come after.  Under
\* a non-null wrapper null gives exactly the error "Expected non-nullable
\* type < T > not to be null" and nothing of the inner coercer; any other
\* value gives what the inner coercer gives for it.
C17_NullHandling ==
    \A r \in 1..Len(runs) :
        coercion.way = "input" =>
            LET T == coercion.T
                result == runs[r].result
            IN  /\ (coercion.value = Null /\ ~is_non_null_type(T)
                        /\ ~TypeDirective(T)) =>
                       result = CoercionResult(Null, <<>>)
                /\ (coercion.value = Null /\ ~is_non_null_type(T)) =>
                       result =
                           IF is_list_type(T) THEN CoercionResult(Null, <<>>)
                           ELSE input_directives_coercer(
                                    CoercionResult(Null, <<>>), T[1], <<>>)
                /\ (coercion.value = Null /\ is_non_null_type(T)) =>
                       /\ result =
                              CoercionResult(Null, <<NotToBeNull(T, <<>>)>>)
                       /\ Len(result.errors) = 1
                /\ (coercion.value # Null /\ is_non_null_type(T)) =>
                       result =
                           get_input_coercer(Tail(T), coercion.value, <<>>)

\* null coerced as Int! gave the one error of the non-null wrapper
C17_Witness ==
    /\ coercion = InputCall(<<"NN", "Int">>, Null, {})
    /\ Len(runs) >= 1
    /\ runs[1].result =
           CoercionResult(
               Null,
               <<coercion_error(
                     "Expected non-nullable type < Int! > not to be null",
                     <<>>)>>)

\* null coerced as In gave null without error
C17_NullableWitness ==
    /\ coercion = InputCall(<<"In">>, Null, {})
    /\ Len(runs) >= 1
    /\ runs[1].result = CoercionResult(Null, <<>>)

\* the variable of a variable node has no runtime value: the variable map
\* is empty, lacks the variable, or holds UNDEFINED_VALUE for it
WithoutRuntimeValue(node, variables) ==
    \/ Len(variables.s) = 0
    \/ ~HasKey(variables, node.v)
    \/ get(variables, node.v, Null) = Undefined

\* C18: for every scalar, enum, input object and list type the literal
\* coercer gives UNDEFINED_VALUE for no node, null for the null literal
\* (handed to the directives of the type, if it carries any), and for a
\* variable UNDEFINED_VALUE if the variable has no runtime value, else the
\* runtime value of the variable as it is; none of these is what
\* parse_literal, the enum lookup or the coercion of fields or items gives.
C18_NullAndVariablePrelude ==
    \A r \in 1..Len(runs) :
        (coercion.way = "literal" /\ ~is_non_null_type(coercion.T)) =>
            LET T == coercion.T
                node == coercion.value
                result == runs[r].result
            IN  /\ node = NoNode => result = Undefined
                /\ (node = NullValueNode /\ ~TypeDirective(T)) => result = Null
                /\ node = NullValueNode =>
                       result =
                           IF is_list_type(T) THEN Null
                           ELSE literal_directives_coercer(Null, node, T[1],
                                                           FALSE)
                /\ node.t = "VariableNode" =>
                       result =
                           IF WithoutRuntimeValue(node, coercion.variables)
                           THEN Undefined
                           ELSE get(coercion.variables, node.v, Undefined)

\* the variable $v, whose runtime value is 1, coerced as [Int] is 1 as it
\* is, not the list [1]
C18_Witness ==
    /\ coercion.way = "literal"
    /\ coercion.T = <<"L", "Int">>
    /\ coercion.value = VariableNode("v")
    /\ coercion.variables = Dict(<<Entry("v", IntV("1"))>>)
    /\ Len(runs) >= 1
    /\ runs[1].result = IntV("1")

\* the variable $v coerced as In with a variable map that lacks it
C18_MissingWitness ==
    /\ coercion.way = "literal"
    /\ coercion.T = <<"In">>
    /\ coercion.value = VariableNode("v")
    /\ coercion.variables = Dict(<<Entry("w", IntV("2"))>>)
    /\ Len(runs) >= 1
    /\ runs[1].result = Undefined

\* what the i-th item of the list-value node of the coercion stands for:
\* None or UNDEFINED_VALUE for a variable without runtime value, according
\* to the nullability of the item type, else the coercion of the item
LiteralItem(i) ==
    LET item_type == Tail(coercion.T)
        item_node == coercion.value.s[i]
    IN  IF is_missing_variable(item_node, coercion.variables)
        THEN IF is_non_null_type(item_type) THEN Undefined ELSE Null
        ELSE get_literal_coercer(item_type, item_node, coercion.variables)

\* a literal coercion of a list type that returned (no directive raised)
LiteralListReturned(r) ==
    /\ coercion.way = "literal"
    /\ is_list_type(coercion.T)
    /\ runs[r].result.t # "exc"

\* the list-value node is UNDEFINED_VALUE exactly when one of its items
\* is, and is the list of its items in order otherwise
ListValueNodeCoercion(r) ==
    LET node == coercion.value
        result == runs[r].result
    IN  node.t = "ListValueNode" =>
            /\ result = Undefined <=>
                   \E i \in 1..Len(node.s) : LiteralItem(i) = Undefined
            /\ result # Undefined =>
                   result = Lst([i \in 1..Len(node.s) |-> LiteralItem(i)])

\* the node coerced as a single item: the one-element list of it, or
\* UNDEFINED_VALUE
AsSingleLiteral(r) ==
    LET coerced_value == get_literal_coercer(Tail(coercion.T), coercion.value,
                                             coercion.variables)
    IN  runs[r].result =
            IF coerced_value.t = "exc" THEN coerced_value
            ELSE IF coerced_value = Undefined THEN Undefined
            ELSE Lst(<<coerced_value>>)

C19_InvalidItemWitness ==
    /\ coercion.way = "literal"
    /\ coercion.T = <<"L", "Int">>
    /\ coercion.value = ListValueNode(<<IntValueNode("1"), StringValueNode("s")>>)
    /\ coercion.directives = {}
    /\ Len(runs) >= 1
    /\ runs[1].result = Undefined

\* 1 as [Int!] is [1]
C19_SingleItemWitness ==
    /\ coercion.way = "literal"
    /\ coercion.T = <<"L", "NN", "Int">>
    /\ coercion.value = IntValueNode("1")
    /\ coercion.directives = {}
    /\ Len(runs) >= 1
    /\ runs[1].result = Lst(<<IntV("1")>>)

\* no item before the i-th makes the list UNDEFINED_VALUE or raises
ItemsCoercedUpTo(i) ==
    \A j \in 1..(i - 1) :
        LiteralItem(j) # Undefined /\ LiteralItem(j).t # "exc"

\* C20: the items of a list-value node are coerced in index order and the
\* first item that makes the list UNDEFINED_VALUE ends the coercion: the
\* list is UNDEFINED_VALUE even when the directive of a later item would
\* have raised, and a directive that raises in an item before it is what
\* the coercion raises.
C20_LiteralListShortCircuits ==
    \A r \in 1..Len(runs) :
        ( /\ coercion.way = "literal"
          /\ is_list_type(coercion.T)
          /\ coercion.value.t = "ListValueNode" ) =>
            \A i \in 1..Len(coercion.value.s) :
                ItemsCoercedUpTo(i) =>
                    /\ LiteralItem(i) = Undefined =>
                           runs[r].result = Undefined
                    /\ LiteralItem(i).t = "exc" =>
                           runs[r].result = LiteralItem(i)

\* ["s", 1] as [Int] with a directive of Int that raises: the list is
\* UNDEFINED_VALUE, the directive was not run on 1
C20_Witness ==
    /\ coercion.way = "literal"
    /\ coercion.T = <<"L", "Int">>
    /\ coercion.value = ListValueNode(<<StringValueNode("s"), IntValueNode("1")>>)
    /\ coercion.directives = {"Int"}
    /\ LiteralItem(2).t = "exc"
    /\ Len(runs) >= 1
    /\ runs[1].result = Undefined

\* [1, "s"] as [Int] with a directive of Int that raises: the directive
\* raises on 1 before "s" is looked at
C20_RaisedWitness ==
    /\ coercion.way = "literal"
    /\ coercion.T = <<"L", "Int">>
    /\ coercion.value = ListValueNode(<<IntValueNode("1"), StringValueNode("s")>>)
    /\ coercion.directives = {"Int"}
    /\ LiteralItem(2) = Undefined
    /\ Len(runs) >= 1
    /\ runs[1].result.t = "exc"

\* ------------------------------------------------------------------------
\* Properties of the literal coercers of input objects, non-null types and
\* directives
\* ------------------------------------------------------------------------
\* the declared field is not in the object-value node of the coercion, or
\* is bound there to a variable without runtime value
FieldIsMissing(input_field) ==
    \/ ~HasKey(coercion.value, input_field.name)
    \/ is_missing_variable(get(coercion.value, input_field.name, NoNode),
                           coercion.variables)

WithoutDefaultValue(input_field) ==
    FieldIsMissing(input_field) /\ input_field.default_value = NoNode

\* the field is left out of the coerced object
FieldOmitted(input_field) ==
    WithoutDefaultValue(input_field) /\ ~is_non_null_type(input_field.gql_type)

\* the coercion of the node of the field, or of its default value
FieldValue(input_field) ==
    LET input_field_node ==
            IF FieldIsMissing(input_field) THEN input_field.default_value
            ELSE get(coercion.value, input_field.name, NoNode)
    IN  literal_directives_coercer(
            get_literal_coercer(input_field.gql_type, input_field_node,
                                coercion.variables),
            input_field_node, input_field.id, TRUE)

\* the field makes the coerced object UNDEFINED_VALUE
FieldInvalid(input_field) ==
    \/ WithoutDefaultValue(input_field) /\ is_non_null_type(input_field.gql_type)
    \/ ~WithoutDefaultValue(input_field) /\ FieldValue(input_field) = Undefined

\* a literal coercion as the input object In that returned
LiteralObjectReturned(r) ==
    /\ coercion.way = "literal"
    /\ coercion.T = <<"In">>
    /\ runs[r].result.t # "exc"

\* the coercion of an object-value node: UNDEFINED_VALUE exactly when a
\* field makes it so, else the object of the coerced fields that are not
\* omitted, in the order of their declaration
ObjectValueNodeCoercion(r) ==
    LET fields == input_fields("In")
        result == runs[r].result
        Kept(input_field) == ~FieldOmitted(input_field)
        kept == SelectSeq(fields, Kept)
    IN  coercion.value.t = "ObjectValueNode" =>
            /\ result = Undefined <=>
                   \E i \in 1..Len(fields) : FieldInvalid(fields[i])
            /\ result # Undefined =>
                   result = Dict([i \in 1..Len(kept) |->
                                     Entry(kept[i].name, FieldValue(kept[i]))])

C21_InvalidFieldWitness ==
    /\ coercion.way = "literal"
    /\ coercion.T = <<"In">>
    /\ coercion.value = ObjectValueNode(<<Entry("a", IntValueNode("1")),
                                          Entry("b", StringValueNode("s"))>>)
    /\ coercion.directives = {}
    /\ Len(runs) >= 1
    /\ runs[1].result = Undefined

\* {} is UNDEFINED_VALUE: a is non-null and has no default value
C21_RequiredFieldWitness ==
    /\ coercion.way = "literal"
    /\ coercion.T = <<"In">>
    /\ coercion.value = ObjectValueNode(<<>>)
    /\ Len(runs) >= 1
    /\ runs[1].result = Undefined

\* the variable $v of the coercion has the runtime value null
VariableIsNullValue ==
    /\ HasKey(coercion.variables, "v")
    /\ get(coercion.variables, "v", Undefined) = Null

\* C22: the literal coercer of a non-null type gives UNDEFINED_VALUE for
\* the null literal and what the coercer of the inner type gives for every
\* other node; a variable whose runtime value is null passes as null, as a
\* node of a non-null type and as an item of a list of a non-null type.
C22_LiteralNonNullRejectsNullLiteral ==
    \A r \in 1..Len(runs) :
        coercion.way = "literal" =>
            LET T == coercion.T
                node == coercion.value
                result == runs[r].result
            IN  /\ is_non_null_type(T) =>
                       /\ node = NullValueNode => result = Undefined
                       /\ node # NullValueNode =>
                              result = get_literal_coercer(Tail(T), node,
                                                           coercion.variables)
                       /\ (node = VariableNode("v") /\ VariableIsNullValue) =>
                              result = Null
                /\ ( /\ T = <<"L", "NN", "Int">>
                     /\ node.t = "ListValueNode"
                     /\ VariableIsNullValue
                     /\ result.t = "list" ) =>
                       \A i \in 1..Len(node.s) :
                           /\ node.s[i] # NullValueNode
                           /\ node.s[i] = VariableNode("v") =>
                                  result.s[i] = Null

\* [1, $v] as [Int!] with null for $v is [1, None]
C22_Witness ==
    /\ coercion.way = "literal"
    /\ coercion.T = <<"L", "NN", "Int">>
    /\ coercion.value = ListValueNode(<<IntValueNode("1"), VariableNode("v")>>)
    /\ coercion.variables = Dict(<<Entry("v", Null)>>)
    /\ coercion.directives = {}
    /\ Len(runs) >= 1
    /\ runs[1].result = Lst(<<IntV("1"), Null>>)

\* [1, null] as [Int!] is UNDEFINED_VALUE
C22_NullLiteralWitness ==
    /\ coercion.way = "literal"
    /\ coercion.T = <<"L", "NN", "Int">>
    /\ coercion.value = ListValueNode(<<IntValueNode("1"), NullValueNode>>)
    /\ coercion.directives = {}
    /\ Len(runs) >= 1
    /\ runs[1].result = Undefined

\* the directive of an input field or type was run: it raises
DirectiveRan(result, id) ==
    result = Raised(DirectiveMessage(id))

\* the coercion of a node as Int: the directive of Int runs exactly when
\* Int has one, the coerced value is not UNDEFINED_VALUE and the node is not
\* a variable; the value is returned as it is otherwise
TypeDirectiveRuns(r) ==
    LET node == coercion.value
        value == literal_scalar_coercer(node, coercion.variables)
        runs_directive ==
            /\ "Int" \in coercion.directives
            /\ value # Undefined
            /\ node.t # "VariableNode"
    IN  coercion.T = <<"Int">> =>
            /\ DirectiveRan(runs[r].result, "Int") <=> runs_directive
            /\ ~runs_directive => runs[r].result = value

\* the coercion of an object-value node as In, whose field a is given: the
\* directive of the field a runs exactly when a has one and the coerced
\* value of a is not UNDEFINED_VALUE, whether the node of a is a variable or
\* not (no other directive is there to raise)
FieldDirectiveRuns(r) ==
    LET node == coercion.value
        a == input_fields("In")[1]
        a_node == get(node, "a", NoNode)
        a_value == get_literal_coercer(a.gql_type, a_node, coercion.variables)
    IN  ( /\ coercion.T = <<"In">>
          /\ coercion.directives \subseteq {"In.a"}
          /\ node.t = "ObjectValueNode"
          /\ ~FieldIsMissing(a)
          /\ a_value.t # "exc" ) =>
            /\ DirectiveRan(runs[r].result, "In.a") <=>
                   ("In.a" \in coercion.directives /\ a_value # Undefined)
            /\ a_value = Undefined => runs[r].result = Undefined

\* C23: the literal coercer runs the on_post_input_coercion directives on
\* the coerced value exactly when there are directives, the value is not
\* UNDEFINED_VALUE, and the node is not a variable coerced outside an input
\* field: the directive of an input field runs on the value of a variable,
\* the directive of a type does not, and UNDEFINED_VALUE reaches no
\* directive.
C23_LiteralDirectivesRun ==
    \A r \in 1..Len(runs) :
        coercion.way = "literal" =>
            TypeDirectiveRuns(r) /\ FieldDirectiveRuns(r)

\* {a: $v} as In with 1 for $v and a directive on the field a: the
\* directive runs
C23_Witness ==
    /\ coercion.way = "literal"
    /\ coercion.T = <<"In">>
    /\ coercion.value = ObjectValueNode(<<Entry("a", VariableNode("v"))>>)
    /\ coercion.variables = Dict(<<Entry("v", IntV("1"))>>)
    /\ coercion.directives = {"In.a"}
    /\ Len(runs) >= 1
    /\ DirectiveRan(runs[1].result, "In.a")

\* $v as Int with 1 for $v and a directive on Int: the directive does not
\* run
C23_VariableWitness ==
    /\ coercion.way = "literal"
    /\ coercion.T = <<"Int">>
    /\ coercion.value = VariableNode("v")
    /\ coercion.variables = Dict(<<Entry("v", IntV("1"))>>)
    /\ coercion.directives = {"Int"}
    /\ Len(runs) >= 1
    /\ runs[1].result = IntV("1")

\* "s" as Int with a directive on Int: UNDEFINED_VALUE, no directive runs
C23_UndefinedWitness ==
    /\ coercion.way = "literal"
    /\ coercion.T = <<"Int">>
    /\ coercion.value = StringValueNode("s")
    /\ coercion.directives = {"Int"}
    /\ Len(runs) >= 1
    /\ runs[1].result = Undefined

\* ------------------------------------------------------------------------
\* Properties of the directives of the input coercers
\* ------------------------------------------------------------------------
\* the errors of the two exceptions that the directive of In raises in one
\* MultipleException
ErrorsOfIn ==
    << coercion_error("[ERROR] first of In", <<>>),
       coercion_error("[ERROR] second of In", <<>>) >>

IsErrorOfIn(e) == \E i \in 1..Len(ErrorsOfIn) : e = ErrorsOfIn[i]

\* an input coercion of the type In, with a directive, that returned
DirectedObjectReturned(r) ==
    /\ coercion.way = "input"
    /\ coercion.T = <<"In">>
    /\ "In" \in coercion.directives
    /\ runs[r].result.k = "result"

\* what the coercer of In gives before the directive of In
CoercedObject == input_input_object_coercer("In", coercion.value, <<>>)

\* an input coercion of the type Int, with a directive, that returned
DirectedScalarReturned(r) ==
    /\ coercion.way = "input"
    /\ coercion.T = <<"Int">>
    /\ "Int" \in coercion.directives
    /\ runs[r].result.k = "result"

\* C24: the input coercer runs the on_post_input_coercion directives only
\* on a coercion result without errors; a directive that raises gives a
\* result of errors only, one for each exception of a MultipleException,
\* each at the path of the coercion, and raises nothing; an input object
\* one of whose fields has an error keeps the errors of its fields and gets
\* none from its own directive.
C24_InputDirectivesAfterCleanCoercion ==
    \A r \in 1..Len(runs) :
        /\ DirectedObjectReturned(r) =>
               /\ CoercedObject.errors # <<>> =>
                      /\ runs[r].result = CoercedObject
                      /\ \A i \in 1..Len(runs[r].result.errors) :
                             ~IsErrorOfIn(runs[r].result.errors[i])
               /\ CoercedObject.errors = <<>> =>
                      /\ runs[r].result.errors = ErrorsOfIn
                      /\ runs[r].result.value = Null
        /\ DirectedScalarReturned(r) =>
               LET coerced == input_scalar_coercer(coercion.value, <<>>)
               IN  /\ coerced.errors # <<>> => runs[r].result = coerced
                   /\ coerced.errors = <<>> =>
                          runs[r].result =
                              CoercionResult(
                                  Null,
                                  <<coercion_error(DirectiveMessage("Int"),
                                                   <<>>)>>)
        /\ (coercion.way = "input" /\ coercion.T \in {<<"In">>, <<"Int">>}
               /\ get_wrapped_type(coercion.T) \in coercion.directives) =>
               runs[r].result.k = "result"

\* {a: 1} as In with a directive on In: the two errors of the directive
C24_Witness ==
    /\ coercion.way = "input"
    /\ coercion.T = <<"In">>
    /\ coercion.value = Dict(<<Entry("a", IntV("1"))>>)
    /\ coercion.directives = {"In"}
    /\ Len(runs) >= 1
    /\ runs[1].result = CoercionResult(Null, ErrorsOfIn)

\* {a: "s"} as In with a directive on In: the error of a only
C24_FieldErrorWitness ==
    /\ coercion.way = "input"
    /\ coercion.T = <<"In">>
    /\ coercion.value = Dict(<<Entry("a", StrV("s"))>>)
    /\ coercion.directives = {"In"}
    /\ Len(runs) >= 1
    /\ Len(runs[1].result.errors) = 1
    /\ ~IsErrorOfIn(runs[1].result.errors[1])

\* {a: 1} as In with directives on In and on a: the error of the directive
\* of a only
C24_FieldDirectiveWitness ==
    /\ coercion.way = "input"
    /\ coercion.T = <<"In">>
    /\ coercion.value = Dict(<<Entry("a", IntV("1"))>>)
    /\ coercion.directives = {"In", "In.a"}
    /\ Len(runs) >= 1
    /\ runs[1].result.errors =
           <<coercion_error(DirectiveMessage("In.a"), <<"a">>)>>

\* the request passes the variable $v, of the scalar Int that carries a
\* directive, as the argument x of the field, and $v was given 1; the
\* coercion of $v has returned
DirectedVariableCoerced ==
    /\ "Int" \in request.directives
    /\ Len(request.variable_definitions) = 1
    /\ request.variable_definitions[1].graphql_type = <<"Int">>
    /\ get(request.raw_variable_values, "v", Undefined) = IntV("1")
    /\ get(request.argument_nodes, "x", NoNode) = VariableNode("v")
    /\ Len(variable_results) = 1
    /\ variable_results[1].k # "pending"

\* C25 as stated: the directive of Int is not run on the value of $v
C25_NoDirectiveOnVariableArgument ==
    DirectedVariableCoerced =>
        variable_results[1] =
            Called(CoercionResult(IntV("1"), <<>>), <<"input_coercer">>)

\* the argument of the request bound to a variable with a coerced value
ArgumentFromVariable(i) ==
    LET node == get(request.argument_nodes,
                    request.argument_definitions[i].name, NoNode)
    IN  /\ pc \in {"coerce_arguments", "respond", "done"}
        /\ i <= Len(argument_results)
        /\ argument_results[i].k = "result"
        /\ node.t = "VariableNode"
        /\ HasKey(variable_values.values, node.v)

\* C25, amended: the input coercer runs the directives of the type on the
\* clean value of a variable as on any other value, in the coercion of the
\* variable, where a directive that raises gives an error of the variable;
\* the argument bound to the variable takes the coerced value of the
\* variable as it is, and no coercer, hence no directive of the type, runs
\* on it again.
C25_DirectiveRunsInVariableCoercion ==
    /\ DirectedVariableCoerced =>
           /\ variable_results[1].k = "result"
           /\ variable_results[1].errors =
                  InvalidValue("v", <<coercion_error(DirectiveMessage("Int"),
                                                     <<>>)>>)
    /\ \A i \in 1..Len(request.argument_definitions) :
           ArgumentFromVariable(i) =>
               /\ argument_results[i].coerced =
                      get(variable_values.values,
                          get(request.argument_nodes,
                              request.argument_definitions[i].name,
                              NoNode).v,
                          Undefined)
               /\ \A n \in 1..Len(argument_results[i].calls) :
                      argument_results[i].calls[n] # "literal_coercer"

\* the request with 1 for $v was answered with the error of the directive
C25_Witness ==
    /\ DirectedVariableCoerced
    /\ response.done
    /\ response.data = Null
    /\ response.errors =
           InvalidValue("v", <<coercion_error(DirectiveMessage("Int"), <<>>)>>)

\* an argument took the value 1 of the variable $v as it is
C25_ArgumentWitness ==
    /\ ArgumentFromVariable(1)
    /\ request.directives = {}
    /\ argument_results[1].coerced = IntV("1")
    /\ argument_results[1].calls = <<"directives">>

\* ------------------------------------------------------------------------
\* Properties of the resolution of a field
\* ------------------------------------------------------------------------
Resolved == cursor.at = "returned"

LastInvoked == invoked[Len(invoked)]

\* the callable that was invoked last failed
LastInvokedFailed ==
    \/ LastInvoked = "compute_directive_nodes" /\ resolution.computed = "raise"
    \/ LastInvoked = "coerce_arguments" /\ resolution.arguments = "raise"
    \/ LastInvoked = "resolver" /\ resolution.resolver = "raise"
    \/ LastInvoked = "on_pre_output_coercion"
           /\ resolution.output_directives = "raise"
    \/ \E i \in 1..Len(cursor.chain) :
           \/ /\ LastInvoked = "arguments_coercer " \o cursor.chain[i].name
              /\ cursor.chain[i].kind = "arguments"
           \/ /\ LastInvoked = "on_field_execution " \o cursor.chain[i].name
              /\ cursor.chain[i].kind = "raise"

\* the coercion of the arguments of the field failed
ArgumentsFailed ==
    /\ Resolved
    /\ resolution.computed = "ok"
    /\ resolution.arguments = "raise"

\* C26: resolve_field_value_or_error raises nothing: what fails in
\* compute_directive_nodes, in coerce_arguments, in the on_field_execution
\* chain or the resolver, or in the on_pre_output_coercion directives is the
\* value it returns; when coerce_arguments fails nothing is invoked after
\* it: no resolver, no hook, no arguments coercer of a directive.
C26_ExceptionAsValue ==
    /\ outcome.k # "raise"
    /\ Resolved =>
           /\ outcome.k = "return"
           /\ LastInvokedFailed => outcome.value.t = "exc"
    /\ ArgumentsFailed =>
           /\ invoked = <<"compute_directive_nodes", "coerce_arguments">>
           /\ outcome.value =
                  MultipleException(<<Raised("Argument has invalid value.")>>)

\* the arguments of a field with two directives on its node and one on its
\* definition failed
C26_Witness ==
    /\ ArgumentsFailed
    /\ Len(resolution.node_directives) = 2
    /\ \A i \in 1..2 : resolution.node_directives[i].kind = "next"
    /\ resolution.definition_directives = <<Directive("d1", "next")>>
    /\ outcome.k = "return"
    /\ outcome.value.t = "exc"

\* the resolver raised inside two hooks; the exception is the value
C26_ResolverWitness ==
    /\ Resolved
    /\ invoked = << "compute_directive_nodes", "coerce_arguments",
                    "arguments_coercer n1", "on_field_execution n1",
                    "arguments_coercer d1", "on_field_execution d1",
                    "resolver" >>
    /\ outcome = returned(Raised("Resolver"))

\* the directives of the field that implement on_field_execution, those of
\* the field node first, in the order they are written
Implementing ==
    LET Implements(d) == d.kind # "none"
    IN  SelectSeq(resolution.node_directives \o resolution.definition_directives,
                  Implements)

IsHook(name) ==
    \E i \in 1..Len(Implementing) :
        name = "on_field_execution " \o Implementing[i].name

\* the hooks invoked so far, in the order of their invocation
HooksInvoked == SelectSeq(invoked, IsHook)

\* C27: the hooks are invoked in the order of the directives, those of the
\* field node before those of the field definition, the directives without
\* the hook left out; the arguments of a directive are coerced right
\* before its hook is invoked; the hook after one is invoked only if that
\* one called next, and the resolver only if all of them did.
C27_DirectiveChainOrder ==
    /\ Len(HooksInvoked) <= Len(Implementing)
    /\ \A i \in 1..Len(HooksInvoked) :
           /\ HooksInvoked[i] = "on_field_execution " \o Implementing[i].name
           /\ i < Len(HooksInvoked) => Implementing[i].kind = "next"
    /\ \A j \in 1..Len(invoked) :
           /\ IsHook(invoked[j]) =>
                  /\ j > 1
                  /\ \E i \in 1..Len(Implementing) :
                         /\ invoked[j] =
                                "on_field_execution " \o Implementing[i].name
                         /\ invoked[j - 1] =
                                "arguments_coercer " \o Implementing[i].name
           /\ invoked[j] = "resolver" =>
                  /\ Len(HooksInvoked) = Len(Implementing)
                  /\ \A i \in 1..Len(Implementing) :
                         Implementing[i].kind = "next"
    /\ \A i \in 1..Len(Implementing) :
           ( /\ i <= Len(HooksInvoked)
             /\ Implementing[i].kind \in {"raise", "return"} )
               => /\ Len(HooksInvoked) = i
                  /\ \A j \in 1..Len(invoked) : invoked[j] # "resolver"

\* the hooks of n1, n2 and d1 were invoked in this order, each after the
\* coercion of its arguments, and then the resolver
C27_Witness ==
    /\ Len(resolution.node_directives) = 2
    /\ \A i \in 1..2 : resolution.node_directives[i].kind = "next"
    /\ resolution.definition_directives = <<Directive("d1", "next")>>
    /\ invoked = << "compute_directive_nodes", "coerce_arguments",
                    "arguments_coercer n1", "on_field_execution n1",
                    "arguments_coercer n2", "on_field_execution n2",
                    "arguments_coercer d1", "on_field_execution d1",
                    "resolver" >>

\* n1 has no hook and the hook of n2 returns without calling next: d1 and
\* the resolver are not invoked
C27_ReturnWitness ==
    /\ Resolved
    /\ resolution.node_directives =
           <<Directive("n1", "none"), Directive("n2", "return")>>
    /\ resolution.definition_directives = <<Directive("d1", "next")>>
    /\ invoked = << "compute_directive_nodes", "coerce_arguments",
                    "arguments_coercer n2", "on_field_execution n2",
                    "on_pre_output_coercion" >>

\* ------------------------------------------------------------------------
\* The output list coercer takes its items one after the other
\* ------------------------------------------------------------------------
\* a field whose resolver returned a list for a declared list of non-null
\* items, whether or not its coercion is over
IsNonNullItemList(p) ==
    /\ ~IsIndex(p[Len(p)])
    /\ tasks[p].st \in {"waiting", "done"}
    /\ "L" \in Range(schema[FieldOf(p)])
    /\ is_non_null_type(ItemType(schema[FieldOf(p)]))
    /\ tasks[p].raw.t = "list"

\* item i (from 0) of the list cannot be completed
FailingItem(p, i) == ItemFails(p, i) \/ ItemChildFails(p, i)

\* the lowest index of the list at which an item fails
LowestFailing(p) ==
    CHOOSE i \in 0..(Len(tasks[p].raw.s) - 1) :
        /\ FailingItem(p, i)
        /\ \A j \in 0..(i - 1) : ~FailingItem(p, j)

\* the errors of a list that are located at item i of the list p or below it
ErrorsOfItem(errs, p, i) ==
    { k \in 1..Len(errs) :
        /\ Len(errs[k].path) > Len(p)
        /\ SubSeq(errs[k].path, 1, Len(p) + 1) = PathIdx(p, i) }

\* the errors of a list located at any item of the list p from index i on
ErrorsFromItem(errs, p, i) ==
    UNION { ErrorsOfItem(errs, p, j) : j \in i..(Len(tasks[p].raw.s) - 1) }

\* C30: the output list coercer completes its items in index order, one at a
\* time: the fields of an item are resolved only once every item before it
\* is completed. When the item type is non-null the first failing item ends
\* the list: the fields of the items after it are never resolved, the list
\* raises or records exactly one error, located at the lowest failing index,
\* and the response holds no other error from that index on.
C30_SequentialListAbortsAtFirstFailure ==
    \A p \in DOMAIN tasks :
        IsNonNullItemList(p)
        => /\ \A j \in 0..(Len(tasks[p].raw.s) - 1) :
                 ChildOf(p, j) \in DOMAIN tasks
                 => \A k \in 0..(j - 1) :
                       /\ ~FailingItem(p, k)
                       /\ ChildOf(p, k) \in DOMAIN tasks
                       /\ tasks[ChildOf(p, k)].st = "done"
           /\ ( /\ tasks[p].st = "done"
                /\ \E i \in 0..(Len(tasks[p].raw.s) - 1) : FailingItem(p, i) )
              => LET i == LowestFailing(p)
                     raised == tasks[p].res.errs \o tasks[p].res.log
                 IN  /\ Len(raised) = 1
                     /\ ErrorsOfItem(raised, p, i) = {1}
                     /\ \A j \in (i + 1)..(Len(tasks[p].raw.s) - 1) :
                           ChildOf(p, j) \notin DOMAIN tasks
                     /\ response.done
                        => /\ Cardinality(ErrorsFromItem(response.errors, p, i)) = 1
                           /\ Cardinality(ErrorsOfItem(response.errors, p, i)) = 1

\* both items of a list of non-null scalars were invalid: the response holds
\* the error of the first one only
C30_Witness ==
    \E p \in DOMAIN tasks :
        /\ IsNonNullItemList(p)
        /\ tasks[p].raw = Lst(<<Bad, Bad>>)
        /\ response.done
        /\ Cardinality(ErrorsOfItem(response.errors, p, 0)) = 1
        /\ ErrorsOfItem(response.errors, p, 1) = {}

\* the field of the first of two objects failed: the field of the second one
\* was never resolved
C30_SubSelectionWitness ==
    \E p \in DOMAIN tasks :
        /\ IsNonNullItemList(p)
        /\ tasks[p].raw = Lst(<<Ok, Ok>>)
        /\ tasks[p].st = "done"
        /\ ItemChildFails(p, 0)
        /\ ChildOf(p, 1) \notin DOMAIN tasks
        /\ response.done

\* ------------------------------------------------------------------------
\* UNDEFINED_VALUE stays inside the coercion of the arguments
\* ------------------------------------------------------------------------
\* argument i is of nullable type, has no value and declares no default
ArgumentIsAbsent(i) ==
    /\ ~is_non_null_type(request.argument_definitions[i].graphql_type)
    /\ request.argument_definitions[i].default_value = NoNode
    /\ ~ArgumentHasValue(i)

\* the values of the map coerce_arguments returned
ArgumentValues ==
    { coerced_arguments.values.s[k].s[1] :
        k \in 1..Len(coerced_arguments.values.s) }

\* C29: an argument of nullable type without value and without default is
\* coerced to UNDEFINED_VALUE, which argument_coercer returns without
\* invoking the on_argument_execution directives, and the map coerce_arguments
\* returns has no key for it; no argument_coercer hands UNDEFINED_VALUE to the
\* directives; and no value of a map coerce_arguments returns is
\* UNDEFINED_VALUE or an exception.
C29_UndefinedStaysInside ==
    /\ \A i \in 1..Len(argument_results) :
          argument_results[i].k # "pending"
          => /\ "directives" \in Range(argument_results[i].calls)
                => argument_results[i].coerced # Undefined
             /\ ArgumentIsAbsent(i)
                => /\ argument_results[i].k = "result"
                   /\ argument_results[i].value = Undefined
                   /\ "directives" \notin Range(argument_results[i].calls)
                   /\ coerced_arguments.k = "result"
                      => ~HasKey(coerced_arguments.values,
                                 request.argument_definitions[i].name)
    /\ coerced_arguments.k = "result"
       => /\ \A value \in ArgumentValues : value # Undefined /\ value.t # "exc"
          /\ \A key \in Keys(coerced_arguments.values) :
                \E i \in 1..Len(argument_results) :
                   /\ request.argument_definitions[i].name = key
                   /\ argument_results[i].value # Undefined

\* the nullable argument x carries a raising on_argument_execution directive
\* and is given nothing: the directive did not run and the map coerce_arguments
\* returned holds y only
C29_Witness ==
    /\ coerced_arguments.k = "result"
    /\ Len(argument_results) = 2
    /\ ArgumentIsAbsent(1)
    /\ request.argument_definitions[1].directive = "raise"
    /\ ArgumentNode(1) = NoNode
    /\ Keys(coerced_arguments.values) = {"y"}

\* x is bound to a variable that has no runtime value and no default
C29_VariableWitness ==
    /\ coerced_arguments.k = "result"
    /\ ArgumentIsAbsent(1)
    /\ ArgumentNode(1).t = "VariableNode"
    /\ ~HasKey(coerced_arguments.values, "x")

\* ------------------------------------------------------------------------
\* Completion of an abstract type
\* ------------------------------------------------------------------------
\* the type the answer of the type resolver stands for: itself, or the type
\* of the schema that has the name
RuntimeType ==
    IF completion.runtime_type_or_name.t = "str"
    THEN find_type(completion.runtime_type_or_name.v)
    ELSE completion.runtime_type_or_name

\* abstract_coercer is over
Completed == step.at = "done"

\* the type resolver was called
TypeResolved ==
    \E k \in 1..Len(trace) :
        trace[k] \in {<<"type_resolver">>, <<"default_type_resolver">>}

\* the object types the sub-selection was executed as
ExecutedAs ==
    { trace[k][2] : k \in { j \in 1..Len(trace) : trace[j][1] = "execute_fields" } }

\* what the completion of an abstract type does once it is over: None for
\* None, without the type resolver; else the type resolver is called and
\* its answer must be an object type that is a possible type of the
\* abstract type, or the error named is raised and no sub-selection is
\* executed; if it is, the sub-selection is executed as that type, once
AbstractCompletion(possible_types) ==
    Completed
    => IF completion.result = Null
       THEN completion_outcome = returned(Null) /\ trace = <<>>
       ELSE /\ TypeResolved
            /\ IF ~is_object_runtime_type(RuntimeType)
               THEN /\ completion_outcome = raises(MustResolveToObject)
                    /\ ExecutedAs = {}
               ELSE IF RuntimeType.v \notin possible_types
               THEN /\ completion_outcome = raises(NotAPossibleType)
                    /\ ExecutedAs = {}
               ELSE /\ ExecutedAs = {RuntimeType.v}
                    /\ Len(trace) = 2
                    /\ completion.fields = "value"
                       => completion_outcome.k = "return"

\* C28: the completion of an abstract type, union or interface, returns
\* None for None without calling the type resolver; else the runtime type
\* must be an object type and a declared possible type of the abstract
\* type: if not, "must resolve to an Object type at runtime" or "is not a
\* possible type for" is raised and no sub-selection is executed; if so,
\* the sub-selection is executed as that object type.
C28_AbstractCompletion ==
    AbstractCompletion(possibleTypes(completion.abstract_type))

\* the same for the abstract types that are unions
C28_UnionCompletion ==
    completion.abstract_type = <<"Pet">>
    => AbstractCompletion(possible_types_set(completion.abstract_type))

\* whatever object type the type resolver answers for an interface, the
\* completion raises the AttributeError and executes no sub-selection
C28_InterfaceNeverCompletes ==
    ( /\ Completed
      /\ completion.abstract_type = <<"Named">>
      /\ completion.result # Null
      /\ is_object_runtime_type(RuntimeType) )
    => /\ completion_outcome = raises(NoIsPossibleType)
       /\ ExecutedAs = {}

\* the type resolver of the interface Named answered Cat, which implements
\* it: no sub-selection was executed and the AttributeError was raised
C28_Witness ==
    /\ Completed
    /\ completion.abstract_type = <<"Named">>
    /\ completion.result = Ok
    /\ completion.runtime_type_or_name = TypeObject("Cat")
    /\ completion_outcome = raises(NoIsPossibleType)
    /\ ExecutedAs = {}

\* the type resolver of the union Pet answered the name Dog: the
\* sub-selection was executed as Dog
C28_UnionWitness ==
    /\ Completed
    /\ completion.abstract_type = <<"Pet">>
    /\ completion.runtime_type_or_name = StrV("Dog")
    /\ ExecutedAs = {"Dog"}
    /\ completion_outcome.k = "return"

====
